---- MODULE Spec2Model ----
(***************************************************************************)
(* Model of the edge-generation endpoint of LYNX                           *)
(* (apps/web/src/app/api/status/route.ts, POST) and of the tables it reads *)
(* and writes (apps/web/src/lib/schema.ts, scripts/sql/01_init.sql).       *)
(*                                                                         *)
(* Numbers.  A JavaScript number is [nan, v]; thresholds are kept in       *)
(* hundredths (v = 60 is 0.6).  A cosine similarity dot/(|a|*|b|) is kept  *)
(* exactly, as the sign of dot and the reduced fraction p/q = dot^2 /      *)
(* (|a|^2 * |b|^2): the value is s * sqrt(p/q).  Two similarities are      *)
(* equal iff their records are equal.  Floating-point rounding is not      *)
(* modelled.                                                               *)
(***************************************************************************)
EXTENDS Integers, Sequences, FiniteSets, TLC

VARIABLES
  adminApiKey,     \* process.env.ADMIN_API_KEY
  embeddings,      \* table embeddings (joined with concepts): a set of rows
  edges,           \* table edges: a set of rows, unique on (source, target, type)
  pc,              \* per handler: where the POST call stands
  req,             \* per handler: clearExisting, threshold, maxEdgesPerNode
  embeddingsData,  \* per handler: the rows as the SELECT returned them
  newEdges,        \* per handler: the generated edge list
  batchStart,      \* per handler: loop variable i of the batch insert
  insertedCount,   \* per handler: insertedCount
  response,        \* per handler: the JSON response and its status
  pre,             \* history: the edges table when the call arrived
  post,            \* history: the edges table when the call returned
  runNo,           \* history: the call's number in arrival order
  runs,            \* history: calls received so far
  concepts,        \* table concepts: a set of rows
  search,          \* the last GET /api/search call: its request and response
  lod,             \* the last evaluation of LODSystem: its props, camera and result
  detail,          \* the last GET /api/concepts/[id] call: its request and response
  path,            \* the path query in progress or answered last
  xAdminKey,       \* per handler: the x-admin-key header of the call
  nodePositions,   \* table node_positions: a set of rows, unique on conceptId
  regen,           \* the last POST /api/admin/regenerate-positions call
  galaxy,          \* the galaxy store (zustand, useGalaxyStore)
  ui,              \* SearchInterface and the canvas: timers, refs, pending handlers
  cam,             \* CameraController: its refs and the three.js camera
  scoring,         \* the LOD score of one node worked out at every tier index
  memo             \* LODSystem over renders: the camera object and the memoized values

\* the variables of the edge-generation endpoint
buildGraphVars == <<adminApiKey, pc, req, embeddingsData, newEdges, batchStart,
                    insertedCount, response, pre, post, runNo, runs, xAdminKey>>

\* the variables the edge-generation endpoint neither reads nor writes
readSide == <<concepts, search, lod, detail, path, nodePositions, regen, galaxy,
              ui, cam, scoring, memo>>

\* the tables
tables == <<embeddings, edges, concepts, nodePositions>>

\* the state of the browser
browser == <<galaxy, ui, cam, scoring, memo>>

vars == <<adminApiKey, embeddings, edges, pc, req, embeddingsData, newEdges,
          batchStart, insertedCount, response, pre, post, runNo, runs,
          concepts, search, lod, detail, path, xAdminKey, nodePositions, regen,
          galaxy, ui, cam, scoring, memo>>

----------------------------------------------------------------------------
(* Bounds of the model *)

\* calls received in one behaviour
MaxRuns == 2

\* nodes handed to the level-of-detail system
MaxSceneNodes == 3

\* levels of the longest lodLevels list
MaxTiers == 8

\* route.ts sets batchSize = 1000; scaled down so that the three edges of a
\* three-row table span two batches
batchSize == 2

Handlers == {1, 2}

----------------------------------------------------------------------------
(* JavaScript numbers *)

NaN == [nan |-> TRUE, v |-> 0]

Num(n) == [nan |-> FALSE, v |-> n]

\* parseFloat(searchParams.get('threshold') || '0.6'), in hundredths
ParseThreshold(s) ==
  CASE s = "absent" -> Num(60)
    [] s = "0.5" -> Num(50)
    [] s = "0.6" -> Num(60)
    [] s = "2" -> Num(200)
    [] OTHER -> NaN

\* parseInt(searchParams.get('maxEdges') || '12')
ParseMaxEdges(s) ==
  CASE s = "absent" -> Num(12)
    [] s = "1" -> Num(1)
    [] s = "0" -> Num(0)
    [] s = "-1" -> Num(-1)
    [] OTHER -> NaN

----------------------------------------------------------------------------
(* Cosine similarity *)

RECURSIVE GCD(_, _)
GCD(a, b) == IF b = 0 THEN a ELSE GCD(b, a % b)

SimNaN == [nan |-> TRUE, s |-> 0, p |-> 0, q |-> 1]

\* the similarity dot / sqrt(den), den > 0
SimOf(dot, den) ==
  IF dot = 0 THEN [nan |-> FALSE, s |-> 0, p |-> 0, q |-> 1]
  ELSE LET g == GCD(dot * dot, den)
       IN [nan |-> FALSE, s |-> IF dot > 0 THEN 1 ELSE -1,
           p |-> (dot * dot) \div g, q |-> den \div g]

RECURSIVE SumSq(_)
SumSq(v) == IF v = <<>> THEN 0 ELSE Head(v) * Head(v) + SumSq(Tail(v))

\* sourceVector.vector.reduce((sum, a, idx) => sum + a * targetVector.vector[idx], 0):
\* an index past the target's end reads undefined and the sum becomes NaN
RECURSIVE DotFrom(_, _, _)
DotFrom(a, b, idx) ==
  IF idx > Len(a) THEN Num(0)
  ELSE LET rest == DotFrom(a, b, idx + 1)
       IN IF idx > Len(b) \/ rest.nan THEN NaN
          ELSE Num(a[idx] * b[idx] + rest.v)

CosineSimilarity(a, b) ==
  LET dot == DotFrom(a, b, 1)
      den == SumSq(a) * SumSq(b)
  IN IF dot.nan \/ den = 0 THEN SimNaN ELSE SimOf(dot.v, den)

\* x < y on similarities that are not NaN
SimLess(x, y) ==
  IF x.s # y.s THEN x.s < y.s
  ELSE IF x.s = 1 THEN x.p * y.q < y.p * x.q
  ELSE IF x.s = -1 THEN x.p * y.q > y.p * x.q
  ELSE FALSE

\* similarity >= threshold (a comparison with NaN is false)
SimGeThreshold(x, t) ==
  IF x.nan \/ t.nan THEN FALSE
  ELSE IF t.v <= 0 THEN x.s >= 0 \/ x.p * 10000 <= t.v * t.v * x.q
  ELSE x.s = 1 /\ x.p * 10000 >= t.v * t.v * x.q

----------------------------------------------------------------------------
(* Edge generation: route.ts, Step 3 *)

\* the inner loop, for (let j = i + 1; ...): the candidates of row i are taken
\* from the rows after it only
RECURSIVE SimilaritiesFrom(_, _, _, _)
SimilaritiesFrom(rows, i, j, threshold) ==
  IF j > Len(rows) THEN <<>>
  ELSE LET similarity == CosineSimilarity(rows[i].vector, rows[j].vector)
       IN (IF SimGeThreshold(similarity, threshold)
           THEN <<[conceptId |-> rows[j].conceptId, similarity |-> similarity]>>
           ELSE <<>>)
          \o SimilaritiesFrom(rows, i, j + 1, threshold)

\* place x behind every element that is not smaller than it
RECURSIVE InsertSorted(_, _)
InsertSorted(x, s) ==
  IF s = <<>> THEN <<x>>
  ELSE IF SimLess(Head(s).similarity, x.similarity) THEN <<x>> \o s
  ELSE <<Head(s)>> \o InsertSorted(x, Tail(s))

RECURSIVE SortInto(_, _)
SortInto(s, acc) ==
  IF s = <<>> THEN acc ELSE SortInto(Tail(s), InsertSorted(Head(s), acc))

\* similarities.sort((a, b) => b.similarity - a.similarity): Array.prototype.sort
\* is stable, so equal similarities keep the order they were pushed in
SortBySimilarity(s) == SortInto(s, <<>>)

\* Array.prototype.slice(0, end): NaN counts as 0, a negative end counts from
\* the back
Slice(s, end) ==
  LET k == IF end.nan THEN 0
           ELSE IF end.v < 0
                THEN (IF Len(s) + end.v < 0 THEN 0 ELSE Len(s) + end.v)
                ELSE (IF end.v > Len(s) THEN Len(s) ELSE end.v)
  IN SubSeq(s, 1, k)

TopSimilarities(rows, i, threshold, maxEdgesPerNode) ==
  Slice(SortBySimilarity(SimilaritiesFrom(rows, i, i + 1, threshold)),
        maxEdgesPerNode)

\* the edge records pushed for row i (the random id is left out)
EdgesOfRow(rows, i, threshold, maxEdgesPerNode) ==
  LET top == TopSimilarities(rows, i, threshold, maxEdgesPerNode)
  IN [k \in 1..Len(top) |->
        [sourceId |-> rows[i].conceptId, targetId |-> top[k].conceptId,
         weight |-> top[k].similarity, edgeType |-> "similarity"]]

RECURSIVE GenerateFrom(_, _, _, _)
GenerateFrom(rows, i, threshold, maxEdgesPerNode) ==
  IF i > Len(rows) THEN <<>>
  ELSE EdgesOfRow(rows, i, threshold, maxEdgesPerNode)
       \o GenerateFrom(rows, i + 1, threshold, maxEdgesPerNode)

\* the outer loop, for (let i = 0; ...)
GenerateEdges(rows, threshold, maxEdgesPerNode) ==
  GenerateFrom(rows, 1, threshold, maxEdgesPerNode)

----------------------------------------------------------------------------
(* The tables *)

Triple(e) == <<e.sourceId, e.targetId, e.edgeType>>

\* UNIQUE(source_id, target_id, edge_type)
UniqueEdge(store) ==
  \A e1, e2 \in store : Triple(e1) = Triple(e2) => e1 = e2

\* CHECK (weight >= 0 AND weight <= 1)
WeightInRange(w) == ~w.nan /\ w.s >= 0 /\ w.p <= w.q

\* an INSERT of several rows is one statement: it adds all of them or, when a
\* row breaks a constraint, none and throws
InsertThrows(batch, store) ==
  \/ \E k \in 1..Len(batch) : \E e \in store : Triple(e) = Triple(batch[k])
  \/ \E k, l \in 1..Len(batch) : k < l /\ Triple(batch[k]) = Triple(batch[l])
  \/ \E k \in 1..Len(batch) : ~WeightInRange(batch[k].weight)

Range(s) == {s[k] : k \in 1..Len(s)}

\* every order a SELECT without ORDER BY may return the rows of a table in
Orders(table) ==
  {s \in [1..Cardinality(table) -> table] :
     \A k, l \in 1..Cardinality(table) : k # l => s[k] # s[l]}

Row(id, conceptId, vector) ==
  [id |-> id, conceptId |-> conceptId, vector |-> vector]

\* cos(A,B) = 0.9, cos(A,C) = cos(B,C) = 0.5
VecA == <<1, 0, 0, 0>>
VecB == <<9, 3, 3, 1>>
VecC == <<1, 1, -1, 1>>
\* a vector of another dimension
VecShort == <<1, 1, -1>>

ScenarioTable ==
  {Row("e1", "A", VecA), Row("e2", "B", VecB), Row("e3", "C", VecC)}

\* two vectors of dimension 4 and one of dimension 3
MixedDimensionTable ==
  {Row("e1", "A", VecA), Row("e2", "B", VecB), Row("e4", "C", VecShort)}

\* embeddings.concept_id is indexed, not unique: concept A has two rows
TwoRowsTable ==
  {Row("e1", "A", VecA), Row("e5", "A", VecC), Row("e2", "B", VecB)}

EmbeddingTables == {{}, ScenarioTable, MixedDimensionTable, TwoRowsTable}

Edge(sourceId, targetId, edgeType, dot, den) ==
  [sourceId |-> sourceId, targetId |-> targetId, edgeType |-> edgeType,
   weight |-> SimOf(dot, den)]

\* an edges table holding a citation edge A->C (0.5) and a similarity edge
\* B->C (0.6) left by an earlier generation
StoredEdges ==
  {Edge("A", "C", "citation", 1, 4), Edge("B", "C", "similarity", 3, 25)}

EdgeTables == {{}, StoredEdges}

----------------------------------------------------------------------------
(* The POST handler *)

NoKey == "undefined"

\* the x-admin-key header: absent (get returns null), the configured key, another
Headers == {"null", "secret", "wrong"}

ThresholdParams == {"absent", "0.5", "2"}

MaxEdgesParams == {"absent", "1", "0", "-1", "abc"}

NoRequest == [clearExisting |-> FALSE, threshold |-> NaN, maxEdgesPerNode |-> NaN]

NoResponse == [status |-> 0, success |-> FALSE, error |-> "", totalEdges |-> 0]

Unauthorized ==
  [status |-> 401, success |-> FALSE, error |-> "Unauthorized - Invalid admin key",
   totalEdges |-> 0]

ConfigurationError ==
  [status |-> 500, success |-> FALSE, error |-> "Server configuration error",
   totalEdges |-> 0]

NoEmbeddings ==
  [status |-> 400, success |-> FALSE,
   error |-> "No embeddings found. Generate embeddings first.", totalEdges |-> 0]

Failed ==
  [status |-> 500, success |-> FALSE, error |-> "Failed to generate edges",
   totalEdges |-> 0]

Succeeded(totalEdges) ==
  [status |-> 200, success |-> TRUE, error |-> "", totalEdges |-> totalEdges]

\* !adminKey || adminKey !== process.env.ADMIN_API_KEY
KeyRejected(adminKey) == adminKey = "null" \/ adminKey # adminApiKey

Return(h, resp) ==
  /\ pc' = [pc EXCEPT ![h] = "done"]
  /\ response' = [response EXCEPT ![h] = resp]
  /\ post' = [post EXCEPT ![h] = edges]

\* the call arrives: authentication and parameter parsing, up to the first await
Receive(h, adminKey, clear, thresholdParam, maxEdgesParam) ==
  /\ pc[h] \in {"idle", "done"}
  /\ runs < MaxRuns
  /\ runs' = runs + 1
  /\ runNo' = [runNo EXCEPT ![h] = runs + 1]
  /\ pre' = [pre EXCEPT ![h] = edges]
  /\ embeddingsData' = [embeddingsData EXCEPT ![h] = <<>>]
  /\ newEdges' = [newEdges EXCEPT ![h] = <<>>]
  /\ batchStart' = [batchStart EXCEPT ![h] = 0]
  /\ insertedCount' = [insertedCount EXCEPT ![h] = 0]
  /\ IF KeyRejected(adminKey)
     THEN /\ Return(h, Unauthorized)
          /\ req' = [req EXCEPT ![h] = NoRequest]
     ELSE IF adminApiKey = NoKey
     THEN /\ Return(h, ConfigurationError)
          /\ req' = [req EXCEPT ![h] = NoRequest]
     ELSE /\ req' = [req EXCEPT ![h] =
                       [clearExisting |-> clear,
                        threshold |-> ParseThreshold(thresholdParam),
                        maxEdgesPerNode |-> ParseMaxEdges(maxEdgesParam)]]
          /\ pc' = [pc EXCEPT ![h] = IF clear THEN "clear" ELSE "fetch"]
          /\ response' = [response EXCEPT ![h] = NoResponse]
          /\ post' = [post EXCEPT ![h] = {}]
  /\ xAdminKey' = [xAdminKey EXCEPT ![h] = adminKey]
  /\ UNCHANGED <<adminApiKey, embeddings, edges>>
  /\ UNCHANGED readSide

\* Step 1: await db.delete(edges)
ClearExisting(h) ==
  /\ pc[h] = "clear"
  /\ edges' = {}
  /\ pc' = [pc EXCEPT ![h] = "fetch"]
  /\ UNCHANGED <<adminApiKey, xAdminKey, embeddings, req, embeddingsData, newEdges,
                 batchStart, insertedCount, response, pre, post, runNo, runs>>
  /\ UNCHANGED readSide

\* FetchAndGenerate without the check embeddingsData.length === 0
FetchAndGenerateNoEmptyCheck(h) ==
  /\ pc[h] = "fetch"
  /\ \E rows \in Orders(embeddings) :
       LET generated ==
             GenerateEdges(rows, req[h].threshold, req[h].maxEdgesPerNode)
       IN /\ embeddingsData' = [embeddingsData EXCEPT ![h] = rows]
          /\ newEdges' = [newEdges EXCEPT ![h] = generated]
          /\ pc' = [pc EXCEPT ![h] =
                      IF Len(generated) = 0 THEN "stats" ELSE "insert"]
  /\ UNCHANGED <<adminApiKey, xAdminKey, embeddings, edges, req, batchStart, insertedCount,
                 response, pre, post, runNo, runs>>
  /\ UNCHANGED readSide

\* Steps 2 and 3: the SELECT, the empty check and the edge generation, which
\* runs without an await up to the first insert
FetchAndGenerate(h) ==
  /\ pc[h] = "fetch"
  /\ \E rows \in Orders(embeddings) :
       /\ embeddingsData' = [embeddingsData EXCEPT ![h] = rows]
       /\ IF Len(rows) = 0
          THEN /\ Return(h, NoEmbeddings)
               /\ UNCHANGED newEdges
          ELSE LET generated ==
                     GenerateEdges(rows, req[h].threshold, req[h].maxEdgesPerNode)
               IN /\ newEdges' = [newEdges EXCEPT ![h] = generated]
                  /\ pc' = [pc EXCEPT ![h] =
                              IF Len(generated) = 0 THEN "stats" ELSE "insert"]
                  /\ UNCHANGED <<response, post>>
  /\ UNCHANGED <<adminApiKey, xAdminKey, embeddings, edges, req, batchStart, insertedCount,
                 pre, runNo, runs>>
  /\ UNCHANGED readSide

\* Step 4, one turn of the loop: await db.insert(edges).values(batch); a throw
\* is caught by the handler's catch, which answers 500
InsertBatch(h) ==
  /\ pc[h] = "insert"
  /\ LET last == IF batchStart[h] + batchSize > Len(newEdges[h])
                 THEN Len(newEdges[h]) ELSE batchStart[h] + batchSize
         batch == SubSeq(newEdges[h], batchStart[h] + 1, last)
     IN IF InsertThrows(batch, edges)
        THEN /\ Return(h, Failed)
             /\ UNCHANGED <<edges, batchStart, insertedCount>>
        ELSE /\ edges' = edges \cup Range(batch)
             /\ insertedCount' =
                  [insertedCount EXCEPT ![h] = insertedCount[h] + Len(batch)]
             /\ batchStart' = [batchStart EXCEPT ![h] = batchStart[h] + batchSize]
             /\ pc' = [pc EXCEPT ![h] =
                         IF batchStart[h] + batchSize < Len(newEdges[h])
                         THEN "insert" ELSE "stats"]
             /\ UNCHANGED <<response, post>>
  /\ UNCHANGED <<adminApiKey, xAdminKey, embeddings, req, embeddingsData, newEdges, pre,
                 runNo, runs>>
  /\ UNCHANGED readSide

\* Step 5: SELECT COUNT(*) ... FROM edges, and the success response
Statistics(h) ==
  /\ pc[h] = "stats"
  /\ Return(h, Succeeded(Cardinality(edges)))
  /\ UNCHANGED <<adminApiKey, xAdminKey, embeddings, edges, req, embeddingsData, newEdges,
                 batchStart, insertedCount, pre, runNo, runs>>
  /\ UNCHANGED readSide

----------------------------------------------------------------------------
(* The concepts table *)

\* category is nullable
NoCategory == "null"

Concept(id, title, summary, category, createdAt) ==
  [id |-> id, title |-> title, summary |-> summary, category |-> category,
   createdAt |-> createdAt]

ConceptTable ==
  {Concept("A", "Map", "of a city", "physics", 1),
   Concept("B", "Graph", "nodes and edges", "biology", 2),
   Concept("C", "Tree", "a graph without cycles", NoCategory, 2),
   Concept("D", "Atlas", "a book of maps", "physics", 3)}

----------------------------------------------------------------------------
(* GET /api/search *)

\* searchParams.get('query'): null when the parameter is absent
NoQuery == [present |-> FALSE, text |-> ""]

Query(text) == [present |-> TRUE, text |-> text]

SearchQueries == {NoQuery, Query(""), Query("GRAPH"), Query("a"), Query("_r")}

LimitParams == {"absent", "1", "2", "0", "abc"}

SearchThresholdParams == {"absent", "0.5", "0.9", "2"}

\* what the embedding service may answer for a query
QueryEmbeddings == {VecA, VecC, VecShort}

\* parseInt(searchParams.get('limit') || '20')
ParseLimit(s) ==
  CASE s = "absent" -> Num(20)
    [] s = "1" -> Num(1)
    [] s = "2" -> Num(2)
    [] s = "0" -> Num(0)
    [] OTHER -> NaN

\* parseFloat(searchParams.get('threshold') || '0.7'), in hundredths
ParseSearchThreshold(s) ==
  CASE s = "absent" -> Num(70)
    [] s = "0.5" -> Num(50)
    [] s = "0.9" -> Num(90)
    [] s = "2" -> Num(200)
    [] OTHER -> NaN

\* SearchRequestSchema.parse does not throw
SearchRequestValid(query, limit, threshold) ==
  /\ query.present /\ Len(query.text) >= 1
  /\ ~limit.nan /\ limit.v >= 1 /\ limit.v <= 100
  /\ ~threshold.nan /\ threshold.v >= 0 /\ threshold.v <= 100

\* 1 - (embedding <=> query) > threshold, for a threshold that passed the
\* schema (threshold >= 0)
SimGtThreshold(x, t) ==
  ~x.nan /\ ~t.nan /\ x.s = 1 /\ x.p * 10000 > t.v * t.v * x.q

\* the rows of concepts INNER JOIN embeddings that pass the WHERE clause
SimilarRows(queryEmbedding, threshold) ==
  {r \in embeddings :
     SimGtThreshold(CosineSimilarity(r.vector, queryEmbedding), threshold)}

\* ORDER BY similarity DESC: rows of equal similarity come in any order
DescendingBySimilarity(rows, queryEmbedding) ==
  \A k \in 1..(Len(rows) - 1) :
    ~SimLess(CosineSimilarity(rows[k].vector, queryEmbedding),
             CosineSimilarity(rows[k + 1].vector, queryEmbedding))

\* LIMIT n
Limit(rows, n) == SubSeq(rows, 1, IF n < Len(rows) THEN n ELSE Len(rows))

\* results.map(...): what a result carries
VectorResult(row, queryEmbedding) ==
  [concept |-> row.conceptId,
   similarity |-> CosineSimilarity(row.vector, queryEmbedding)]

NoSearch ==
  [kind |-> "none", query |-> NoQuery, queryEmbedding |-> <<>>,
   limit |-> NaN, threshold |-> NaN, status |-> 0, results |-> <<>>]

SearchFailed(kind, query, limit, threshold) ==
  [kind |-> kind, query |-> query, queryEmbedding |-> <<>>,
   limit |-> limit, threshold |-> threshold, status |-> 500, results |-> <<>>]

\* the handler of search/route.ts; the query <=> of vectors of different
\* dimensions makes the database raise an error
VectorSearch(queryParam, limitParam, thresholdParam, queryEmbedding) ==
  LET limit == ParseLimit(limitParam)
      threshold == ParseSearchThreshold(thresholdParam)
  IN /\ IF ~SearchRequestValid(queryParam, limit, threshold)
        THEN search' = SearchFailed("vector", queryParam, limit, threshold)
        ELSE IF \E r \in embeddings : Len(r.vector) # Len(queryEmbedding)
        THEN search' = [SearchFailed("vector", queryParam, limit, threshold)
                          EXCEPT !.queryEmbedding = queryEmbedding]
        ELSE \E rows \in Orders(SimilarRows(queryEmbedding, threshold)) :
               /\ DescendingBySimilarity(rows, queryEmbedding)
               /\ search' =
                    [kind |-> "vector", query |-> queryParam,
                     queryEmbedding |-> queryEmbedding,
                     limit |-> limit, threshold |-> threshold, status |-> 200,
                     results |-> [k \in 1..Len(Limit(rows, limit.v)) |->
                                    VectorResult(rows[k], queryEmbedding)]]
     /\ UNCHANGED <<buildGraphVars, tables, regen, browser, lod, detail, path>>

UpperCaseLetters == "ABCDEFGHIJKLMNOPQRSTUVWXYZ"

LowerCaseLetters == "abcdefghijklmnopqrstuvwxyz"

\* one character in lower case
LowerChar(c) ==
  IF \E i \in 1..Len(UpperCaseLetters) : SubSeq(UpperCaseLetters, i, i) = c
  THEN LET i == CHOOSE i \in 1..Len(UpperCaseLetters) :
                  SubSeq(UpperCaseLetters, i, i) = c
       IN SubSeq(LowerCaseLetters, i, i)
  ELSE c

\* String.prototype.toLowerCase
RECURSIVE ToLowerCase(_)
ToLowerCase(text) ==
  IF text = "" THEN ""
  ELSE LowerChar(SubSeq(text, 1, 1)) \o ToLowerCase(SubSeq(text, 2, Len(text)))

\* text ILIKE pattern: % matches any run of characters, _ any one character,
\* letters match without regard to case
RECURSIVE ILike(_, _)
ILike(text, pattern) ==
  IF pattern = "" THEN text = ""
  ELSE LET p == SubSeq(pattern, 1, 1)
           rest == SubSeq(pattern, 2, Len(pattern))
       IN IF p = "%"
          THEN ILike(text, rest)
               \/ (text # "" /\ ILike(SubSeq(text, 2, Len(text)), pattern))
          ELSE /\ text # ""
               /\ (p = "_" \/ LowerChar(p) = LowerChar(SubSeq(text, 1, 1)))
               /\ ILike(SubSeq(text, 2, Len(text)), rest)

\* `%${validatedInput.query.toLowerCase()}%`
SearchTerm(text) == "%" \o ToLowerCase(text) \o "%"

\* the rows of concepts that pass the WHERE clause of the text search
MatchingConcepts(text) ==
  {c \in concepts :
     ILike(c.title, SearchTerm(text)) \/ ILike(c.summary, SearchTerm(text))}

\* ORDER BY created_at DESC: rows of equal creation time come in any order
DescendingByCreatedAt(rows) ==
  \A k \in 1..(Len(rows) - 1) : rows[k].createdAt >= rows[k + 1].createdAt

\* results.map(...) of the text search: similarity is the selected constant 1.0
TextResult(row) == [concept |-> row.id, similarity |-> SimOf(1, 1)]

\* the handler of the text search
TextSearch(queryParam, limitParam, thresholdParam) ==
  LET limit == ParseLimit(limitParam)
      threshold == ParseSearchThreshold(thresholdParam)
  IN /\ IF ~SearchRequestValid(queryParam, limit, threshold)
        THEN search' = SearchFailed("text", queryParam, limit, threshold)
        ELSE \E rows \in Orders(MatchingConcepts(queryParam.text)) :
               /\ DescendingByCreatedAt(rows)
               /\ search' =
                    [kind |-> "text", query |-> queryParam,
                     queryEmbedding |-> <<>>,
                     limit |-> limit, threshold |-> threshold, status |-> 200,
                     results |-> [k \in 1..Len(Limit(rows, limit.v)) |->
                                    TextResult(rows[k])]]
     /\ UNCHANGED <<buildGraphVars, tables, regen, browser, lod, detail, path>>

----------------------------------------------------------------------------
(* The level-of-detail system: LODSystem                                   *)
(*                                                                         *)
(* Lengths are whole numbers of twelfths of a scene unit, sizes whole      *)
(* numbers of 240ths and importance of hundredths, so that the centroid    *)
(* and the average size of up to four nodes are whole numbers too.         *)

\* importance?: number, left out
NoImportance == -1

LODNode(id, title, x, y, z, size, importance, category) ==
  [id |-> id, title |-> title, position |-> [x |-> x, y |-> y, z |-> z],
   size |-> size, importance |-> importance, category |-> category]

\* a distance bound of a level: a number or Infinity
Finite(v) == [inf |-> FALSE, v |-> v]

Infinity == [inf |-> TRUE, v |-> 0]

\* clusterRadius?: 0 when left out (undefined and 0 are both falsy)
LODLevel(distance, maxNodes, minSize, clusterRadius) ==
  [distance |-> distance, maxNodes |-> maxNodes, minSize |-> minSize,
   clusterRadius |-> clusterRadius]

\* the square of Vector3.length()
LengthSq(p) == p.x * p.x + p.y * p.y + p.z * p.z

\* cameraDistance <= lodLevels[i].distance
WithinDistance(cameraPos, distance) ==
  distance.inf \/ (distance.v >= 0 /\ LengthSq(cameraPos) <= distance.v * distance.v)

\* the loop without its break: every level overwrites lodLevel
LodLevelFromNoBreak(cameraPos, lodLevels, i) ==
  IF Len(lodLevels) = 0 THEN 0 ELSE Len(lodLevels) - 1

\* the loop that determines lodLevel, from index i on (indices count from 0)
RECURSIVE LodLevelFrom(_, _, _)
LodLevelFrom(cameraPos, lodLevels, i) ==
  IF i >= Len(lodLevels) THEN (IF i = 0 THEN 0 ELSE i - 1)
  ELSE IF WithinDistance(cameraPos, lodLevels[i + 1].distance) THEN i
  ELSE LodLevelFrom(cameraPos, lodLevels, i + 1)

LodLevel(cameraPos, lodLevels) == LodLevelFrom(cameraPos, lodLevels, 0)

\* Frustum.containsPoint: the view frustum stands as the slab lo <= x <= hi
ContainsPoint(frustum, p) == frustum.lo <= p.x /\ p.x <= frustum.hi

\* frustumCulledNodes
FrustumCulled(nodes, frustum, enableFrustumCulling) ==
  IF ~enableFrustumCulling THEN nodes
  ELSE SelectSeq(nodes, LAMBDA node : ContainsPoint(frustum, node.position))

\* Math.floor(a / b), b # 0
FloorDiv(a, b) == IF b > 0 THEN a \div b ELSE (0 - a) \div (0 - b)

\* clusterKey
ClusterKey(node, clusterRadius) ==
  <<FloorDiv(node.position.x, clusterRadius),
    FloorDiv(node.position.y, clusterRadius),
    FloorDiv(node.position.z, clusterRadius)>>

\* the keys of clusters, in the order Object.values visits them: the order
\* in which forEach met them first
RECURSIVE ClusterKeys(_, _, _)
ClusterKeys(nodes, clusterRadius, seen) ==
  IF nodes = <<>> THEN seen
  ELSE LET key == ClusterKey(Head(nodes), clusterRadius)
       IN ClusterKeys(Tail(nodes), clusterRadius,
                      IF \E k \in 1..Len(seen) : seen[k] = key
                      THEN seen ELSE Append(seen, key))

\* clusters[clusterKey]
ClusterMembers(nodes, clusterRadius, key) ==
  SelectSeq(nodes, LAMBDA node : ClusterKey(node, clusterRadius) = key)

\* node.importance || 0.5
ImportanceOf(node) ==
  IF node.importance = NoImportance \/ node.importance = 0
  THEN 50 ELSE node.importance

\* reduce((acc, n) => acc + n, 0) over a list of numbers
RECURSIVE Sum(_)
Sum(numbers) == IF numbers = <<>> THEN 0 ELSE Head(numbers) + Sum(Tail(numbers))

\* clusterNodes.reduce((prev, current) => importance(current) > importance(prev)
\* ? current : prev): the first of the most important members
RECURSIVE MostImportant(_, _)
MostImportant(prev, rest) ==
  IF rest = <<>> THEN prev
  ELSE MostImportant(IF ImportanceOf(Head(rest)) > ImportanceOf(prev)
                     THEN Head(rest) ELSE prev, Tail(rest))

\* the representative left at its own position
ClusterRepresentativeInPlace(members) ==
  LET representative == MostImportant(Head(members), Tail(members))
  IN IF Len(members) = 1 THEN members[1]
     ELSE [representative EXCEPT
             !.importance = ImportanceOf(representative),
             !.title = representative.title \o " (+"
                         \o ToString(Len(members) - 1) \o " more)"]

\* what clustered.push receives for the members of one cell
ClusterRepresentative(members) ==
  IF Len(members) = 1 THEN members[1]
  ELSE LET n == Len(members)
           avgPos == [x |-> Sum([k \in 1..n |-> members[k].position.x]) \div n,
                      y |-> Sum([k \in 1..n |-> members[k].position.y]) \div n,
                      z |-> Sum([k \in 1..n |-> members[k].position.z]) \div n]
           avgSize == Sum([k \in 1..n |-> members[k].size]) \div n
           scaled == (avgSize * 3) \div 2
           representative == MostImportant(Head(members), Tail(members))
       IN [representative EXCEPT
             !.position = avgPos,
             !.size = IF scaled < 720 THEN scaled ELSE 720,
             !.importance = ImportanceOf(representative),
             !.title = representative.title \o " (+" \o ToString(n - 1)
                         \o " more)"]

\* clusterNodes(nodes, clusterRadius)
ClusterNodes(nodes, clusterRadius, enableClustering) ==
  IF ~enableClustering \/ clusterRadius = 0 THEN nodes
  ELSE LET keys == ClusterKeys(nodes, clusterRadius, <<>>)
       IN [k \in 1..Len(keys) |->
             ClusterRepresentative(ClusterMembers(nodes, clusterRadius, keys[k]))]

\* text.includes(part)
Includes(text, part) ==
  \E i \in 1..(Len(text) - Len(part) + 1) :
    SubSeq(text, i, i + Len(part) - 1) = part

IncludesAny(text, parts) == \E part \in parts : Includes(text, part)

HistoricalTerms ==
  {"history of", "ancient", "civilization", "empire", "revolution", "war"}

ScientificTerms ==
  {"theory", "principle", "law", "effect", "equation", "theorem"}

GeographicTerms == {"volcanology", "seismology", "geology", "geography"}

MajorDomains ==
  {"history & philosophy", "science & technology", "mathematics & physics",
   "life sciences & medicine"}

Max(a, b) == IF a > b THEN a ELSE b

Min(a, b) == IF a < b THEN a ELSE b

\* the whole-number square root; the positions are chosen so that every
\* distance is a whole number of twelfths
RECURSIVE RootFrom(_, _)
RootFrom(n, r) == IF r * r >= n THEN r ELSE RootFrom(n, r + 1)

Root(n) == CHOOSE r \in {RootFrom(n, 0)} : r * r = n

\* cameraPos.distanceTo(nodePos)
DistanceTo(a, b) ==
  Root(LengthSq([x |-> a.x - b.x, y |-> a.y - b.y, z |-> a.z - b.z]))

\* importanceScore, in hundredths, after the boosts by title
ImportanceScore(node) ==
  LET title == ToLowerCase(node.title)
      historical == IF IncludesAny(title, HistoricalTerms)
                    THEN Max(ImportanceOf(node), 80) ELSE ImportanceOf(node)
      scientific == IF IncludesAny(title, ScientificTerms)
                    THEN Max(historical, 80) ELSE historical
  IN IF IncludesAny(title, GeographicTerms) THEN Max(scientific, 70)
     ELSE scientific

\* distanceWeight and importanceWeight, in hundredths
DistanceWeight(lodLevel) == Max(30, 70 - lodLevel * 8)

ImportanceWeight(lodLevel) == Min(60, 30 + lodLevel * 8)

\* lodScore, in units of 1/2400000: with d the distance in twelfths, s the
\* size in 240ths and i the importance in hundredths,
\*   max(0, (24000 - d) / 24000) * distanceWeight / 100
\*   + i / 100 * importanceWeight / 100 + min(s / 720, 1) * 0.15
\*   + categoryBonus + majorDomainBonus
LodScore(node, cameraPos, lodLevel) ==
  LET category == ToLowerCase(node.category)
      categoryBonus == IF Includes(category, "academic") THEN 15 ELSE 0
      majorDomainBonus == IF category \in MajorDomains THEN 10 ELSE 0
  IN Max(0, 24000 - DistanceTo(cameraPos, node.position))
       * DistanceWeight(lodLevel)
     + 240 * ImportanceScore(node) * ImportanceWeight(lodLevel)
     + 500 * Min(node.size, 720)
     + 24000 * (categoryBonus + majorDomainBonus)

\* nodesWithScores: { ...node, distance, lodScore }
WithScore(node, cameraPos, lodLevel) ==
  node @@ [distance |-> DistanceTo(cameraPos, node.position),
           lodScore |-> LodScore(node, cameraPos, lodLevel)]

\* place x behind every element whose score is not smaller than its own
RECURSIVE InsertByScore(_, _)
InsertByScore(x, s) ==
  IF s = <<>> THEN <<x>>
  ELSE IF Head(s).lodScore < x.lodScore THEN <<x>> \o s
  ELSE <<Head(s)>> \o InsertByScore(x, Tail(s))

RECURSIVE SortByScoreInto(_, _)
SortByScoreInto(s, acc) ==
  IF s = <<>> THEN acc
  ELSE SortByScoreInto(Tail(s), InsertByScore(Head(s), acc))

\* nodesWithScores.sort((a, b) => b.lodScore - a.lodScore): the sort is
\* stable, so nodes of equal score keep the order they came in
SortByScore(s) == SortByScoreInto(s, <<>>)

\* LodCalculation with the cut at the maxNodes prop alone
LodCalculationCutAtProp(culled, cameraPos, lodLevels, maxNodes, enableClustering) ==
  LET lodLevel == LodLevel(cameraPos, lodLevels)
      currentLod == lodLevels[lodLevel + 1]
      clustered == IF currentLod.clusterRadius # 0
                   THEN ClusterNodes(culled, currentLod.clusterRadius,
                                     enableClustering)
                   ELSE culled
      workingNodes ==
        SelectSeq(clustered, LAMBDA node : node.size >= currentLod.minSize)
      nodesWithScores ==
        [k \in 1..Len(workingNodes) |->
           WithScore(workingNodes[k], cameraPos, lodLevel)]
  IN [clustered |-> clustered,
      visibleNodes |-> Slice(SortByScore(nodesWithScores), Num(maxNodes)),
      currentLodLevel |-> lodLevel]

\* the main LOD calculation, from the frustum-culled nodes on
LodCalculation(culled, cameraPos, lodLevels, maxNodes, enableClustering) ==
  LET lodLevel == LodLevel(cameraPos, lodLevels)
      currentLod == lodLevels[lodLevel + 1]
      clustered == IF currentLod.clusterRadius # 0
                   THEN ClusterNodes(culled, currentLod.clusterRadius,
                                     enableClustering)
                   ELSE culled
      workingNodes ==
        SelectSeq(clustered, LAMBDA node : node.size >= currentLod.minSize)
      nodesWithScores ==
        [k \in 1..Len(workingNodes) |->
           WithScore(workingNodes[k], cameraPos, lodLevel)]
  IN [clustered |-> clustered,
      visibleNodes |-> Slice(SortByScore(nodesWithScores),
                             Num(Min(currentLod.maxNodes, maxNodes))),
      currentLodLevel |-> lodLevel]

\* the nodes a scene is made of
SceneNodes ==
  {LODNode("n1", "Roman Empire", 0, 0, 0, 240, NoImportance,
           "History & Philosophy"),
   LODNode("n2", "Cats", 36, 0, 0, 480, 50, ""),
   LODNode("n3", "Dogs", -36, 0, 0, 480, 50, ""),
   LODNode("n4", "Graph theory", 36, 0, 0, 288, 90, "Academic")}

\* the lists of at most MaxSceneNodes different nodes
NodeLists ==
  UNION {{s \in [1..n -> SceneNodes] : \A k, l \in 1..n : k # l => s[k] # s[l]} :
           n \in 0..MaxSceneNodes}

\* levels without clustering
TwoLevels ==
  <<LODLevel(Finite(24), 2, 240, 0), LODLevel(Finite(60), 1, 288, 0)>>

\* levels shaped as DEFAULT_LOD_LEVELS: clustering from the second level on,
\* the last level without a distance bound
ClusterLevels ==
  <<LODLevel(Finite(24), 3, 240, 0), LODLevel(Finite(60), 2, 288, 36),
    LODLevel(Infinity, 1, 480, 72)>>

LevelLists == {TwoLevels, ClusterLevels}

Position(x, y, z) == [x |-> x, y |-> y, z |-> z]

CameraPositions ==
  {Position(0, 0, 0), Position(24, 0, 0), Position(0, 48, 0),
   Position(108, 0, 0)}

Frusta == {[lo |-> -1200, hi |-> 1200], [lo |-> 0, hi |-> 1200]}

MaxNodesProps == {1, 1000}

\* LODSystem before its first render
Mounted(props, cameraPos) ==
  [nodes |-> props.nodes, frustum |-> props.frustum,
   enableFrustumCulling |-> props.enableFrustumCulling,
   enableClustering |-> props.enableClustering, lodLevels |-> props.lodLevels,
   maxNodes |-> props.maxNodes, cameraPos |-> cameraPos, rendered |-> FALSE,
   frustumCulledNodes |-> <<>>, clustered |-> <<>>, visibleNodes |-> <<>>,
   currentLodLevel |-> 0]

NoLod ==
  Mounted([nodes |-> <<>>, frustum |-> [lo |-> 0, hi |-> 0],
           enableFrustumCulling |-> TRUE, enableClustering |-> TRUE,
           lodLevels |-> TwoLevels, maxNodes |-> 300],
          Position(0, 0, 0))

\* LODSystem renders: the two useMemo computations
Render ==
  /\ ~lod.rendered
  /\ LET culled == FrustumCulled(lod.nodes, lod.frustum, lod.enableFrustumCulling)
         result == LodCalculation(culled, lod.cameraPos, lod.lodLevels,
                                  lod.maxNodes, lod.enableClustering)
     IN lod' = [lod EXCEPT !.rendered = TRUE,
                           !.frustumCulledNodes = culled,
                           !.clustered = result.clustered,
                           !.visibleNodes = result.visibleNodes,
                           !.currentLodLevel = result.currentLodLevel]
  /\ UNCHANGED <<buildGraphVars, tables, regen, browser, search, detail, path>>

----------------------------------------------------------------------------
(* GET /api/concepts/[id]: the concept, its neighbors and its wormholes *)

\* the edges table of a graph with more than five edges above 0.8 between A
\* (physics) and B (biology), an edge from A to D (physics as A), an edge from
\* A to C (no category) and an edge of weight 0.8 from D to B
CrossDomainEdges ==
  {Edge("A", "B", "similarity", 9, 100), Edge("B", "A", "similarity", 19, 400),
   Edge("A", "B", "citation", 17, 400), Edge("B", "A", "citation", 17, 400),
   Edge("A", "B", "category", 1, 1), Edge("B", "A", "category", 9, 100),
   Edge("A", "D", "similarity", 9, 100), Edge("A", "C", "similarity", 19, 400),
   Edge("D", "B", "similarity", 4, 25), Edge("C", "D", "citation", 1, 4)}

\* the databases the endpoint is called over: none of the edges, the edges of
\* a build, and CrossDomainEdges whole or with one edge missing
DetailEdgeTables ==
  {{}, StoredEdges} \cup
  {CrossDomainEdges \ missing :
     missing \in {m \in SUBSET CrossDomainEdges : Cardinality(m) <= 1}}

\* params.id
ConceptIds == {"", "A", "B", "C", "D", "X"}

\* the rows of edges INNER JOIN concepts: an edge at conceptId with the
\* concept at its other end
NeighborRows(conceptId) ==
  {row \in [concept : concepts, edge : edges] :
     \/ row.edge.sourceId = conceptId /\ row.concept.id = row.edge.targetId
     \/ row.edge.targetId = conceptId /\ row.concept.id = row.edge.sourceId}

\* ORDER BY weight DESC: every order of the rows in which no row comes before
\* a row of greater weight
RECURSIVE DescendingByWeight(_)
DescendingByWeight(rows) ==
  IF rows = {} THEN {<<>>}
  ELSE UNION {{<<first>> \o rest : rest \in DescendingByWeight(rows \ {first})} :
                first \in {r \in rows :
                             \A other \in rows :
                               ~SimLess(r.edge.weight, other.edge.weight)}}

\* the filter without its test of the categories
IsWormholeAnyCategory(concept, neighbor) ==
  SimGtThreshold(neighbor.edge.weight, Num(80))

\* the filter of the wormholes: both categories set and different, and
\* neighbor.edge.weight > 0.8
IsWormhole(concept, neighbor) ==
  /\ neighbor.concept.category # NoCategory /\ neighbor.concept.category # ""
  /\ concept.category # NoCategory /\ concept.category # ""
  /\ neighbor.concept.category # concept.category
  /\ SimGtThreshold(neighbor.edge.weight, Num(80))

\* category || ''
CategoryOrEmpty(concept) ==
  IF concept.category = NoCategory THEN "" ELSE concept.category

\* wormholes.map(...)
Wormhole(concept, neighbor) ==
  [source |-> concept.id, target |-> neighbor.concept.id,
   similarity |-> neighbor.edge.weight, cross_domain |-> TRUE,
   source_category |-> CategoryOrEmpty(concept),
   target_category |-> CategoryOrEmpty(neighbor.concept)]

\* neighbors.map(...)
Neighbor(neighbor) ==
  [concept |-> neighbor.concept.id, similarity |-> neighbor.edge.weight,
   edge_type |-> neighbor.edge.edgeType]

NoDetail ==
  [conceptId |-> "", status |-> 0, neighbors |-> <<>>, wormholes |-> <<>>]

DetailError(conceptId, status) ==
  [conceptId |-> conceptId, status |-> status, neighbors |-> <<>>,
   wormholes |-> <<>>]

\* the handler
GetConcept(conceptId) ==
  /\ IF conceptId = "" THEN detail' = DetailError(conceptId, 400)
     ELSE IF ~\E c \in concepts : c.id = conceptId
     THEN detail' = DetailError(conceptId, 404)
     ELSE LET concept == CHOOSE c \in concepts : c.id = conceptId
          IN \E rows \in DescendingByWeight(NeighborRows(conceptId)) :
               LET neighbors == Limit(rows, 20)
                   wormholes ==
                     Slice(SelectSeq(neighbors,
                                     LAMBDA n : IsWormhole(concept, n)), Num(5))
               IN detail' =
                    [conceptId |-> conceptId, status |-> 200,
                     neighbors |-> [k \in 1..Len(neighbors) |->
                                      Neighbor(neighbors[k])],
                     wormholes |-> [k \in 1..Len(wormholes) |->
                                      Wormhole(concept, wormholes[k])]]
  /\ UNCHANGED <<buildGraphVars, tables, regen, browser, search, lod, path>>

----------------------------------------------------------------------------
(* The path finder: Dijkstra's algorithm over the edges, cost 1 - weight,  *)
(* bounded by a cap on the hops.  Costs are in hundredths.                 *)

\* source_id, target_id: the concepts a path is asked between
PathConcepts == {"A", "B", "C", "D"}

\* max_depth: z.number().min(1).max(10).default(6)
MaxDepthParams == {"absent", "1", "2", "0"}

ParseMaxDepth(s) ==
  CASE s = "absent" -> 6 [] s = "1" -> 1 [] s = "2" -> 2 [] OTHER -> 0

PathRequestValid(maxDepth) == maxDepth >= 1 /\ maxDepth <= 10

\* the weight of an edge in hundredths; the weights of the tables are whole
\* numbers of hundredths
WeightOf(e) ==
  IF e.weight.s = 0 THEN 0 ELSE (100 * Root(e.weight.p)) \div Root(e.weight.q)

\* edge cost = 1 - weight
CostOf(e) == 100 - WeightOf(e)

\* the steps out of a concept: an edge is walked in either direction
StepsFrom(node) ==
  {[to |-> e.targetId, cost |-> CostOf(e)] : e \in {x \in edges : x.sourceId = node}}
  \cup
  {[to |-> e.sourceId, cost |-> CostOf(e)] : e \in {x \in edges : x.targetId = node}}

\* PathNode: a concept with its cumulative distance
PathNode(concept, distance) == [concept |-> concept, distance |-> distance]

NoPath ==
  [pc |-> "idle", source |-> "", target |-> "", maxHops |-> 0, queue |-> {},
   visited |-> {}, error |-> "", path |-> <<>>, total_distance |-> 0]

\* a path query arrives
FindPath(source, target, maxDepthParam) ==
  /\ path.pc \in {"idle", "done"}
  /\ LET maxDepth == ParseMaxDepth(maxDepthParam)
     IN IF ~PathRequestValid(maxDepth)
        THEN path' = [NoPath EXCEPT !.pc = "done", !.source = source,
                                    !.target = target, !.maxHops = maxDepth,
                                    !.error = "InvalidRequest"]
        ELSE path' = [NoPath EXCEPT
                        !.pc = "search", !.source = source, !.target = target,
                        !.maxHops = maxDepth,
                        !.queue = {[node |-> source, hops |-> 0, distance |-> 0,
                                    path |-> <<PathNode(source, 0)>>]}]
  /\ UNCHANGED <<buildGraphVars, tables, regen, browser, search, lod, detail>>

\* Dijkstra's loop with the hop cap one hop too far
ExploreOneHopMore ==
  /\ path.pc = "search"
  /\ IF path.queue = {}
     THEN path' = [path EXCEPT !.pc = "done", !.error = "NoPathFound"]
     ELSE \E entry \in path.queue :
            /\ \A other \in path.queue : entry.distance <= other.distance
            /\ IF entry.node = path.target
               THEN path' = [path EXCEPT !.pc = "done", !.queue = {},
                                         !.path = entry.path,
                                         !.total_distance = entry.distance]
               ELSE IF <<entry.node, entry.hops>> \in path.visited
                       \/ entry.hops > path.maxHops
               THEN path' = [path EXCEPT !.queue = @ \ {entry},
                                         !.visited = @ \cup {<<entry.node, entry.hops>>}]
               ELSE path' =
                      [path EXCEPT
                         !.visited = @ \cup {<<entry.node, entry.hops>>},
                         !.queue =
                           (@ \ {entry}) \cup
                           {[node |-> step.to, hops |-> entry.hops + 1,
                             distance |-> entry.distance + step.cost,
                             path |-> Append(entry.path,
                                             PathNode(step.to,
                                                      entry.distance + step.cost))] :
                              step \in StepsFrom(entry.node)}]
  /\ UNCHANGED <<buildGraphVars, tables, regen, browser, search, lod, detail>>

\* one turn of Dijkstra's loop: take the entry of least distance; at the
\* target the search ends; otherwise the entry is settled and, below the hop
\* cap, its steps are queued
Explore ==
  /\ path.pc = "search"
  /\ IF path.queue = {}
     THEN path' = [path EXCEPT !.pc = "done", !.error = "NoPathFound"]
     ELSE \E entry \in path.queue :
            /\ \A other \in path.queue : entry.distance <= other.distance
            /\ IF entry.node = path.target
               THEN path' = [path EXCEPT !.pc = "done", !.queue = {},
                                         !.path = entry.path,
                                         !.total_distance = entry.distance]
               ELSE IF <<entry.node, entry.hops>> \in path.visited
                       \/ entry.hops >= path.maxHops
               THEN path' = [path EXCEPT !.queue = @ \ {entry},
                                         !.visited = @ \cup {<<entry.node, entry.hops>>}]
               ELSE path' =
                      [path EXCEPT
                         !.visited = @ \cup {<<entry.node, entry.hops>>},
                         !.queue =
                           (@ \ {entry}) \cup
                           {[node |-> step.to, hops |-> entry.hops + 1,
                             distance |-> entry.distance + step.cost,
                             path |-> Append(entry.path,
                                             PathNode(step.to,
                                                      entry.distance + step.cost))] :
                              step \in StepsFrom(entry.node)}]
  /\ UNCHANGED <<buildGraphVars, tables, regen, browser, search, lod, detail>>

----------------------------------------------------------------------------
(* The LOD score at every tier index, in the two versions of LODSystem *)

\* DEFAULT_LOD_LEVELS.length
DefaultTiers == 5

\* distanceWeight and importanceWeight of lod-system.tsx, in hundredths
DistanceWeightLodSystem(lodLevel) == Max(40, 80 - lodLevel * 10)

ImportanceWeightLodSystem(lodLevel) == Min(50, 20 + lodLevel * 10)

\* lodScore of lod-system.tsx, in units of 1/7200000: with d the distance in
\* twelfths, s the size in 240ths and i the importance in hundredths,
\*   max(0, (24000 - d) / 24000) * distanceWeight / 100
\*   + i / 100 * importanceWeight / 100 + min(s / 720, 1) * 0.2 + categoryBonus
LodScoreLodSystem(node, cameraPos, lodLevel) ==
  LET importanceScore == ImportanceOf(node)
      categoryBonus == IF Includes(node.category, "Academic") THEN 10 ELSE 0
  IN 3 * Max(0, 24000 - DistanceTo(cameraPos, node.position))
         * DistanceWeightLodSystem(lodLevel)
     + 720 * importanceScore * ImportanceWeightLodSystem(lodLevel)
     + 2000 * Min(node.size, 720)
     + 72000 * categoryBonus

\* the two versions of the component
Versions == {"part_007", "lod-system.tsx"}

\* the weights and the score of a node at one tier index
ScoreAt(version, node, cameraPos, lodLevel) ==
  IF version = "part_007"
  THEN [distanceWeight |-> DistanceWeight(lodLevel),
        importanceWeight |-> ImportanceWeight(lodLevel),
        lodScore |-> LodScore(node, cameraPos, lodLevel)]
  ELSE [distanceWeight |-> DistanceWeightLodSystem(lodLevel),
        importanceWeight |-> ImportanceWeightLodSystem(lodLevel),
        lodScore |-> LodScoreLodSystem(node, cameraPos, lodLevel)]

\* a node to score, under a lodLevels list of so many tiers
ToScore(version, node, cameraPos, tiers) ==
  [version |-> version, node |-> node, cameraPos |-> cameraPos,
   tiers |-> tiers, scored |-> FALSE, scores |-> <<>>]

NoScoring == ToScore("part_007", LODNode("", "", 0, 0, 0, 0, NoImportance, ""),
                     Position(0, 0, 0), 0)

\* the scoring pass of the node at every tier index 0 .. tiers - 1; scores[k]
\* is the score at tier index k - 1
ScoreNode ==
  /\ ~scoring.scored
  /\ scoring' =
       [scoring EXCEPT
          !.scored = TRUE,
          !.scores = [k \in 1..scoring.tiers |->
                        ScoreAt(scoring.version, scoring.node,
                                scoring.cameraPos, k - 1)]]
  /\ UNCHANGED <<buildGraphVars, tables, regen, search, lod, detail, path,
                 galaxy, ui, cam, memo>>

----------------------------------------------------------------------------
(* LODSystem over its renders: the camera object and the two useMemo values *)

\* the camera of useThree(): one object whose position, projectionMatrix and
\* matrixWorldInverse are objects that are written in place
Camera(position, frustum) == [position |-> position, frustum |-> frustum]

Cameras == {Camera(p, f) : p \in CameraPositions, f \in Frusta}

\* the nodes arrays the store hands over: none, one or two nodes
StoreNodeLists == {nodes \in NodeLists : Len(nodes) <= 2}

\* LODSystem as GalaxyVisualization uses it: maxNodes={1000},
\* enableFrustumCulling and enableClustering true
Unmounted(nodes, lodLevels, camera) ==
  [mounted |-> FALSE, nodes |-> nodes, lodLevels |-> lodLevels,
   maxNodes |-> 1000, enableFrustumCulling |-> TRUE, enableClustering |-> TRUE,
   camera |-> camera, frustumCulledNodes |-> <<>>, visibleNodes |-> <<>>,
   currentLodLevel |-> 0, renderedSinceMove |-> FALSE]

NoMemo == Unmounted(<<>>, TwoLevels, Camera(Position(0, 0, 0), [lo |-> 0, hi |-> 0]))

\* both useMemo computations, from the camera as it is now
Recomputed(m, nodes) ==
  LET culled == FrustumCulled(nodes, m.camera.frustum, m.enableFrustumCulling)
      result == LodCalculation(culled, m.camera.position, m.lodLevels,
                               m.maxNodes, m.enableClustering)
  IN [m EXCEPT !.mounted = TRUE, !.nodes = nodes,
               !.frustumCulledNodes = culled,
               !.visibleNodes = result.visibleNodes,
               !.currentLodLevel = result.currentLodLevel,
               !.renderedSinceMove = TRUE]

\* the first render: both memos are computed
FirstRender ==
  /\ ~memo.mounted
  /\ memo' = Recomputed(memo, memo.nodes)
  /\ UNCHANGED <<buildGraphVars, tables, regen, search, lod, detail, path,
                 galaxy, ui, cam, scoring>>

\* the camera moves (CameraController, OrbitControls): its position and its
\* matrices are written in place; no state of React changes
MoveCamera(camera) ==
  /\ memo.mounted
  /\ camera # memo.camera
  /\ memo' = [memo EXCEPT !.camera = camera, !.renderedSinceMove = FALSE]
  /\ UNCHANGED <<buildGraphVars, tables, regen, search, lod, detail, path,
                 galaxy, ui, cam, scoring>>

\* LODSystem renders again with the props it had: the dependencies nodes,
\* camera.projectionMatrix, camera.matrixWorldInverse, camera.position,
\* lodLevels, maxNodes are the same objects as before, so both useMemo hand
\* back the values they hold
Rerender ==
  /\ memo.mounted
  /\ memo' = [memo EXCEPT !.renderedSinceMove = TRUE]
  /\ UNCHANGED <<buildGraphVars, tables, regen, search, lod, detail, path,
                 galaxy, ui, cam, scoring>>

\* LODSystem renders again with another nodes array: the dependency nodes
\* differs, so frustumCulledNodes and then the selection are computed anew
RerenderWithNodes(nodes) ==
  /\ memo.mounted
  /\ nodes # memo.nodes
  /\ memo' = Recomputed(memo, nodes)
  /\ UNCHANGED <<buildGraphVars, tables, regen, search, lod, detail, path,
                 galaxy, ui, cam, scoring>>

----------------------------------------------------------------------------
(* The galaxy store (stores/galaxy-store.ts) *)

\* selectedNode: string | null
Null == "null"

\* a node of the store; highlighted is optional and absent (falsy) on the
\* nodes the data hook hands to setNodes
GalaxyNode(id, x, y, z) ==
  [id |-> id, position |-> [x |-> x, y |-> y, z |-> z], highlighted |-> FALSE]

NodeA == GalaxyNode("A", 10, 20, 30)
NodeB == GalaxyNode("B", -40, 0, 5)

\* the arrays setNodes is called with
GalaxyNodeLists == {<<>>, <<NodeA>>, <<NodeA, NodeB>>}

\* the ids the actions are called with: two concepts of the galaxy and one
\* that is not in it
GalaxyIds == {"A", "B", "Z"}

\* the lists of ids a search returns
ResultIdLists == {<<>>, <<"A">>, <<"B", "A">>, <<"Z">>}

GalaxyEdge(id, source_id, target_id) ==
  [id |-> id, source_id |-> source_id, target_id |-> target_id, visible |-> TRUE]

GalaxyEdges == <<GalaxyEdge("ab", "A", "B")>>

\* the paths highlightPath is called with
GalaxyPaths == {<<>>, <<"A", "B">>}

\* the initial state of the store, with the edges of the galaxy loaded
InitialStore ==
  [nodes |-> <<>>, edges |-> GalaxyEdges, selectedNode |-> Null,
   hoveredNode |-> Null, searchResults |-> <<>>,
   camera |-> [position |-> <<0, 0, 100>>, target |-> <<0, 0, 0>>, zoom |-> 1]]

NoStore == InitialStore

\* nodeIds.includes(id)
IncludesId(nodeIds, id) == \E k \in 1..Len(nodeIds) : nodeIds[k] = id

\* the node of that id is among the store's nodes
AmongNodes(state, nodeId) ==
  \E k \in 1..Len(state.nodes) : state.nodes[k].id = nodeId

setNodes(state, nodes) == [state EXCEPT !.nodes = nodes]

selectNode(state, nodeId) == [state EXCEPT !.selectedNode = nodeId]

hoverNode(state, nodeId) == [state EXCEPT !.hoveredNode = nodeId]

setSearchResults(state, nodeIds) == [state EXCEPT !.searchResults = nodeIds]

highlightSearchResults(state, nodeIds) ==
  [state EXCEPT
     !.searchResults = nodeIds,
     !.nodes = [k \in 1..Len(state.nodes) |->
                  [state.nodes[k] EXCEPT
                     !.highlighted = IncludesId(nodeIds, state.nodes[k].id)]]]

clearSearchHighlight(state) ==
  [state EXCEPT
     !.searchResults = <<>>,
     !.nodes = [k \in 1..Len(state.nodes) |->
                  [state.nodes[k] EXCEPT !.highlighted = FALSE]]]

\* nodes.find(n => n.id === nodeId): the first node of that id
FindNode(nodes, nodeId) ==
  nodes[CHOOSE k \in 1..Len(nodes) :
          /\ nodes[k].id = nodeId
          /\ \A l \in 1..(k - 1) : nodes[l].id # nodeId]

\* flyToNode that selects the node and leaves the camera where it is
flyToNodeCameraKept(state, nodeId) ==
  IF \E k \in 1..Len(state.nodes) : state.nodes[k].id = nodeId
  THEN [state EXCEPT !.selectedNode = nodeId]
  ELSE state

\* flyToNode: offset = 50; the camera goes to (x + 50, y + 25, z + 50) and
\* aims at the node
flyToNode(state, nodeId) ==
  IF \E k \in 1..Len(state.nodes) : state.nodes[k].id = nodeId
  THEN LET node == FindNode(state.nodes, nodeId)
       IN [state EXCEPT
             !.camera.position =
               <<node.position.x + 50, node.position.y + 25, node.position.z + 50>>,
             !.camera.target =
               <<node.position.x, node.position.y, node.position.z>>,
             !.selectedNode = nodeId]
  ELSE state

\* the earlier version of flyToNode, which sets the target alone
flyToNodeEarlier(state, nodeId) ==
  IF \E k \in 1..Len(state.nodes) : state.nodes[k].id = nodeId
  THEN LET node == FindNode(state.nodes, nodeId)
       IN [state EXCEPT
             !.camera.target =
               <<node.position.x, node.position.y, node.position.z>>,
             !.selectedNode = nodeId]
  ELSE state

highlightPath(state, nodePath) ==
  [state EXCEPT
     !.edges = [k \in 1..Len(state.edges) |->
                  [state.edges[k] EXCEPT
                     !.visible = /\ IncludesId(nodePath, state.edges[k].source_id)
                                 /\ IncludesId(nodePath, state.edges[k].target_id)]]]

resetView(state) ==
  [state EXCEPT
     !.selectedNode = Null, !.hoveredNode = Null, !.searchResults = <<>>,
     !.camera = [position |-> <<0, 0, 100>>, target |-> <<0, 0, 0>>, zoom |-> 1],
     !.edges = [k \in 1..Len(state.edges) |->
                  [state.edges[k] EXCEPT !.visible = TRUE]]]

\* what the page remembers of the last call of a store action: whether it
\* was flyToNode and with which id; tick turns over at every call
NoCall == [name |-> "", nodeId |-> ""]

OtherCall == [name |-> "other", nodeId |-> ""]

FlyToNodeCall(version, nodeId) == [name |-> version, nodeId |-> nodeId]

\* a component calls a store action
Dispatch(next, call) ==
  /\ galaxy' = next
  /\ ui' = [ui EXCEPT !.call = call, !.tick = ~@]
  /\ UNCHANGED <<buildGraphVars, tables, regen, search, lod, detail, path, cam,
                 scoring, memo>>

CallSetNodes(nodes) == Dispatch(setNodes(galaxy, nodes), OtherCall)

CallSelectNode(nodeId) == Dispatch(selectNode(galaxy, nodeId), OtherCall)

CallHoverNode(nodeId) == Dispatch(hoverNode(galaxy, nodeId), OtherCall)

CallSetSearchResults(nodeIds) ==
  Dispatch(setSearchResults(galaxy, nodeIds), OtherCall)

CallHighlightSearchResults(nodeIds) ==
  Dispatch(highlightSearchResults(galaxy, nodeIds), OtherCall)

CallClearSearchHighlight == Dispatch(clearSearchHighlight(galaxy), OtherCall)

CallFlyToNode(nodeId) ==
  Dispatch(flyToNode(galaxy, nodeId), FlyToNodeCall("flyToNode", nodeId))

CallFlyToNodeEarlier(nodeId) ==
  Dispatch(flyToNodeEarlier(galaxy, nodeId),
           FlyToNodeCall("flyToNodeEarlier", nodeId))

CallHighlightPath(nodePath) == Dispatch(highlightPath(galaxy, nodePath), OtherCall)

CallResetView == Dispatch(resetView(galaxy), OtherCall)

----------------------------------------------------------------------------
(* Clicks on the canvas (GalaxyVisualization and GalaxyNodes) *)

\* what a click lands on: the empty background, the instance of a node, or
\* the instanced mesh with no instanceId on the event
Background == "background"

ClickTargets == {Background, "A", "B", "undefined"}

\* the two handlers a click on the mesh sets off; a click on the background
\* sets off the canvas handler alone
HandlersOf(target) ==
  IF target = Background THEN {"handleCanvasClick"}
  ELSE {"handleClick", "handleCanvasClick"}

\* the user clicks once the handlers of the click before have run
Click(target) ==
  /\ ui.pending = {}
  /\ ui' = [ui EXCEPT !.click = target, !.pending = HandlersOf(target)]
  /\ UNCHANGED <<buildGraphVars, tables, regen, search, lod, detail, path,
                 galaxy, cam, scoring, memo>>

\* GalaxyNodes.handleClick: raises the flag, then toggles the selection of
\* nodes[instanceId]
handleClick ==
  /\ "handleClick" \in ui.pending
  /\ LET clickedNodeId == ui.click
     IN IF clickedNodeId # "undefined" /\ AmongNodes(galaxy, clickedNodeId)
        THEN /\ galaxy' = selectNode(galaxy,
                            IF galaxy.selectedNode = clickedNodeId
                            THEN Null ELSE clickedNodeId)
             /\ ui' = [ui EXCEPT !.nodeClickedRef = TRUE,
                                 !.pending = @ \ {"handleClick"},
                                 !.call = OtherCall, !.tick = ~@]
        ELSE /\ galaxy' = galaxy
             /\ ui' = [ui EXCEPT !.nodeClickedRef = TRUE,
                                 !.pending = @ \ {"handleClick"}]
  /\ UNCHANGED <<buildGraphVars, tables, regen, search, lod, detail, path, cam,
                 scoring, memo>>

\* GalaxyVisualization.handleCanvasClick: lowers a raised flag and returns,
\* deselects otherwise
handleCanvasClick ==
  /\ "handleCanvasClick" \in ui.pending
  /\ IF ui.nodeClickedRef
     THEN /\ galaxy' = galaxy
          /\ ui' = [ui EXCEPT !.nodeClickedRef = FALSE,
                              !.pending = @ \ {"handleCanvasClick"},
                              !.canvasRanFirst = @ \/ "handleClick" \in ui.pending]
     ELSE /\ galaxy' = selectNode(galaxy, Null)
          /\ ui' = [ui EXCEPT !.pending = @ \ {"handleCanvasClick"},
                              !.canvasRanFirst = @ \/ "handleClick" \in ui.pending,
                              !.call = OtherCall, !.tick = ~@]
  /\ UNCHANGED <<buildGraphVars, tables, regen, search, lod, detail, path, cam,
                 scoring, memo>>

----------------------------------------------------------------------------
(* SearchInterface (part_012): the query, its results, the highlight effect
   and the timers of the selections *)

\* the searches the page may hold at once
MaxSearches == 3

\* what the user types: two texts too short to search, two with results and
\* one without
TypedQueries == {"", "qu", "quantum", "physics", "xyzzy"}

\* result.concept.id of the results the search API returns for a query
ResultIdsFor(query) ==
  IF query = "quantum" THEN <<"A">>
  ELSE IF query = "physics" THEN <<"B", "A">>
  ELSE <<>>

\* the data of useQuery: undefined, or a response with its results
Undefined == [defined |-> FALSE, results |-> <<>>]

SearchResponse(results) == [defined |-> TRUE, results |-> results]

\* useQuery({ queryKey: ['search', query], enabled: query.length > 2 }): the
\* data is that of the key; a key that was never fetched has none
useQuery(query, cached) ==
  IF Len(query) > 2 /\ query \in cached
  THEN SearchResponse(ResultIdsFor(query))
  ELSE Undefined

\* the highlight effect, run after a render in which searchResults or query
\* changed
HighlightEffect(state, searchResults, query) ==
  IF searchResults.defined /\ Len(searchResults.results) > 0
  THEN highlightSearchResults(state, searchResults.results)
  ELSE IF Len(query) <= 2 THEN clearSearchHighlight(state)
  ELSE state

\* the search the highlights are for after the effect ran: the current one
\* after highlightSearchResults, none (0) after clearSearchHighlight
HighlightedForAfterEffect(searchResults, query, searchNo, highlightedFor) ==
  IF searchResults.defined /\ Len(searchResults.results) > 0 THEN searchNo
  ELSE IF Len(query) <= 2 THEN 0
  ELSE highlightedFor

\* handleSearch(e.target.value), the render and the effect after it
handleSearch(searchQuery) ==
  /\ ui.searchNo < MaxSearches
  /\ searchQuery # ui.query
  /\ LET searchResults == useQuery(searchQuery, ui.cached)
         cleared == IF Len(searchQuery) > 2 THEN galaxy
                    ELSE clearSearchHighlight(galaxy)
     IN /\ galaxy' = HighlightEffect(cleared, searchResults, searchQuery)
        /\ ui' = [ui EXCEPT
                    !.query = searchQuery,
                    !.isOpen = Len(searchQuery) > 2,
                    !.data = searchResults,
                    !.searchNo = @ + 1,
                    !.highlightedFor =
                      HighlightedForAfterEffect(
                        searchResults, searchQuery, ui.searchNo + 1,
                        IF Len(searchQuery) > 2 THEN @ ELSE 0),
                    !.last = "handleSearch",
                    !.call = OtherCall, !.tick = ~@]
  /\ UNCHANGED <<buildGraphVars, tables, regen, search, lod, detail, path, cam,
                 scoring, memo>>

\* the response of /api/search arrives for the query on the page; the render
\* and the effect after it
ResultsArrive ==
  /\ Len(ui.query) > 2
  /\ ~ui.data.defined
  /\ LET searchResults == SearchResponse(ResultIdsFor(ui.query))
     IN /\ galaxy' = HighlightEffect(galaxy, searchResults, ui.query)
        /\ ui' = [ui EXCEPT
                    !.data = searchResults,
                    !.cached = @ \cup {ui.query},
                    !.highlightedFor =
                      HighlightedForAfterEffect(searchResults, ui.query,
                                                ui.searchNo, @),
                    !.last = "ResultsArrive",
                    !.call = OtherCall, !.tick = ~@]
  /\ UNCHANGED <<buildGraphVars, tables, regen, search, lod, detail, path, cam,
                 scoring, memo>>

\* handleSelectResult(conceptId), from a button of the open dropdown: flies
\* to the node, closes the dropdown, empties the query and starts the timer;
\* then the render and the effect after it
handleSelectResult(conceptId) ==
  /\ ui.isOpen
  /\ ui.data.defined
  /\ IncludesId(ui.data.results, conceptId)
  /\ LET searchResults == useQuery("", ui.cached)
     IN /\ galaxy' = HighlightEffect(flyToNode(galaxy, conceptId), searchResults, "")
        /\ ui' = [ui EXCEPT
                    !.query = "",
                    !.isOpen = FALSE,
                    !.data = searchResults,
                    !.timers = @ \cup {ui.searchNo},
                    !.shown = ui.data.results,
                    !.highlightedFor =
                      HighlightedForAfterEffect(searchResults, "", ui.searchNo, @),
                    !.last = "handleSelectResult",
                    !.call = OtherCall, !.tick = ~@]
  /\ UNCHANGED <<buildGraphVars, tables, regen, search, lod, detail, path, cam,
                 scoring, memo>>

\* handleKeyDown with Escape, the render and the effect after it
handleKeyDown ==
  /\ LET searchResults == useQuery("", ui.cached)
     IN /\ galaxy' = HighlightEffect(clearSearchHighlight(galaxy), searchResults, "")
        /\ ui' = [ui EXCEPT
                    !.query = "",
                    !.isOpen = FALSE,
                    !.data = searchResults,
                    !.highlightedFor = 0,
                    !.last = "handleKeyDown",
                    !.call = OtherCall, !.tick = ~@]
  /\ UNCHANGED <<buildGraphVars, tables, regen, search, lod, detail, path, cam,
                 scoring, memo>>

\* the callback of setTimeout(..., 2000) started by the selection made
\* during that search: clearSearchHighlight()
TimerFires(selection) ==
  /\ selection \in ui.timers
  /\ galaxy' = clearSearchHighlight(galaxy)
  /\ ui' = [ui EXCEPT
              !.timers = @ \ {selection},
              !.highlightedFor = 0,
              !.last = "TimerFires",
              !.call = OtherCall, !.tick = ~@]
  /\ UNCHANGED <<buildGraphVars, tables, regen, search, lod, detail, path, cam,
                 scoring, memo>>

----------------------------------------------------------------------------
(* CameraController (components/galaxy/camera-controller.tsx) *)

\* The numbers of the controller are binary floating-point numbers. They are
\* kept here with a significand of Significand bits and a smallest step of
\* 1/2^Fraction, as integers counting steps of 1/2^Fraction; every operation
\* rounds its exact result to the nearest number of the format, ties to even,
\* as the operations of JavaScript do at their width.
Significand == 6

Fraction == 6

\* 1.0 in steps
One == 64

\* the animations a controller is followed through
MaxTargets == 2

Pow2(k) == 2 ^ k

\* the number of bits of n >= 0, a number below 2^30
BitLength(n) ==
  IF n = 0 THEN 0 ELSE CHOOSE b \in 1..30 : Pow2(b - 1) <= n /\ n < Pow2(b)

\* n >= 0 rounded to the nearest multiple of q, ties to the even multiple
RoundTo(n, q) ==
  LET lo == n \div q
      r == n % q
  IN IF 2 * r < q THEN lo * q
     ELSE IF 2 * r > q THEN (lo + 1) * q
     ELSE IF lo % 2 = 0 THEN lo * q ELSE (lo + 1) * q

\* the number of the format nearest to value / 2^scale steps
RoundScaled(value, scale) ==
  LET n == IF value < 0 THEN -value ELSE value
      q == Pow2(Max(scale, BitLength(n) - Significand))
      rounded == RoundTo(n, q) \div Pow2(scale)
  IN IF value < 0 THEN -rounded ELSE rounded

\* the number of the format nearest to x / 2^scale steps, x taken once
FlScaled(x, scale) == CHOOSE r \in {RoundScaled(value, scale) : value \in {x}} : TRUE

\* the number of the format nearest to x steps
Fl(x) == FlScaled(x, 0)

\* the literal 0.8
AnimationSpeed == RoundTo(8 * One, 10) \div 10

\* a * b
FlTimes(a, b) == FlScaled(a * b, Fraction)

\* Math.pow(base, 3)
FlCube(base) == FlScaled(base * base * base, 2 * Fraction)

\* v1 + (v2 - v1) * alpha, one component of Vector3.lerpVectors
LerpComponent(v1, v2, alpha) == Fl(v1 + FlTimes(Fl(v2 - v1), alpha))

\* Vector3.lerpVectors(v1, v2, alpha)
lerpVectors(v1, v2, alpha) ==
  [k \in 1..3 |-> LerpComponent(v1[k], v2[k], alpha)]

\* a vector of whole and half units, in steps
Steps(x, y, z) == <<(x * One) \div 2, (y * One) \div 2, (z * One) \div 2>>

\* the camera states that arrive with animating set: position and target,
\* in half units
CameraStates ==
  {[position |-> Steps(120, 90, 160), target |-> Steps(20, 40, 60)],
   [position |-> Steps(20, 50, 110), target |-> Steps(-80, 0, 10)],
   [position |-> Steps(21, -7, 33), target |-> Steps(-79, -57, -67)]}

\* the delta of a frame, in steps of a second: 1/8 s, 1/2 s, 2 s
Deltas == {8, 32, 128}

\* the refs of the controller and the position of the three.js camera,
\* which the Canvas creates at [0, 0, 100]; targets counts the camera states
\* that arrived, arrived tells a state arrived in the last step
NoCam ==
  [targetPosition |-> <<0, 0, 0>>, targetLookAt |-> <<0, 0, 0>>,
   startPosition |-> <<0, 0, 0>>, startLookAt |-> <<0, 0, 0>>,
   isAnimating |-> FALSE, animationProgress |-> 0,
   position |-> Steps(0, 0, 200), targets |-> 0, arrived |-> FALSE]

\* the effect on a camera state with animating set: start an animation
\* from where the camera is
NewTarget(cameraState) ==
  /\ cam.targets < MaxTargets
  /\ cam' = [cam EXCEPT
               !.startPosition = cam.position,
               !.startLookAt = cam.targetLookAt,
               !.targetPosition = cameraState.position,
               !.targetLookAt = cameraState.target,
               !.isAnimating = TRUE,
               !.animationProgress = 0,
               !.targets = @ + 1,
               !.arrived = TRUE]
  /\ UNCHANGED <<buildGraphVars, tables, regen, search, lod, detail, path,
                 galaxy, ui, scoring, memo>>

\* the progress after a frame of that delta
Advance(animationProgress, delta) ==
  LET sum == Fl(animationProgress + FlTimes(delta, AnimationSpeed))
  IN IF sum >= One THEN One ELSE sum

\* the ease-out of the progress: 1 - Math.pow(1 - progress, 3)
EaseOut(animationProgress) == Fl(One - FlCube(Fl(One - animationProgress)))

\* useFrame((state, delta) => ...) while an animation runs
Frame(delta) ==
  /\ cam.isAnimating
  /\ LET progress == Advance(cam.animationProgress, delta)
     IN cam' = [cam EXCEPT
                  !.animationProgress = progress,
                  !.isAnimating = progress < One,
                  !.position = lerpVectors(cam.startPosition, cam.targetPosition,
                                           EaseOut(progress)),
                  !.arrived = FALSE]
  /\ UNCHANGED <<buildGraphVars, tables, regen, search, lod, detail, path,
                 galaxy, ui, scoring, memo>>

----------------------------------------------------------------------------
(* POST /api/admin/regenerate-positions *)

\* the x-admin-key headers sent to the endpoint
RegenerateHeaders == {"null", "secret", "wrong", "lynx-admin-2024"}

\* the points generateRandomGalaxyPosition draws: one of the core, one of the
\* main galaxy
GalaxyPositions == {<<20, 0, 0>>, <<0, -400, 0>>}

\* a row of node_positions
PositionRow(conceptId, position, clusterId) ==
  [conceptId |-> conceptId, x |-> position[1], y |-> position[2],
   z |-> position[3], clusterId |-> clusterId]

\* a node_positions table with a position for A alone
StoredPositions == {PositionRow("A", <<1, 2, 3>>, "physics")}

WhitespaceCharacters == " "

\* text.replace(/\s+/g, '_'): afterSpace says that the character before text
\* was replaced already
RECURSIVE ReplaceWhitespace(_, _)
ReplaceWhitespace(text, afterSpace) ==
  IF text = "" THEN ""
  ELSE IF SubSeq(text, 1, 1) = WhitespaceCharacters
  THEN (IF afterSpace THEN "" ELSE "_")
         \o ReplaceWhitespace(SubSeq(text, 2, Len(text)), TRUE)
  ELSE SubSeq(text, 1, 1) \o ReplaceWhitespace(SubSeq(text, 2, Len(text)), FALSE)

\* (concept.category || 'general').replace(/\s+/g, '_').toLowerCase()
ClusterIdOf(category) ==
  ToLowerCase(ReplaceWhitespace(
    IF category = NoCategory \/ category = "" THEN "general" ELSE category,
    FALSE))

NoRegen == [adminKey |-> "null", status |-> 0, conceptsRepositioned |-> 0]

\* adminKey !== process.env.ADMIN_API_KEY && adminKey !== 'lynx-admin-2024'
RegenerateKeyRejected(adminKey) ==
  adminKey # adminApiKey /\ adminKey # "lynx-admin-2024"

\* the table after the loop of updates: a row that exists is updated; a
\* concept without a row gets one only when the driver's result carries
\* rowCount (=== 0)
UpdatedPositions(newPositions, hasRowCount) ==
  {PositionRow(c.id, newPositions[c.id], ClusterIdOf(c.category)) :
     c \in {k \in concepts :
              hasRowCount \/ \E row \in nodePositions : row.conceptId = k.id}}
  \cup
  {row \in nodePositions : ~\E c \in concepts : c.id = row.conceptId}

\* the handler
RegeneratePositions(adminKey) ==
  /\ IF RegenerateKeyRejected(adminKey)
     THEN /\ regen' = [adminKey |-> adminKey, status |-> 401,
                       conceptsRepositioned |-> 0]
          /\ UNCHANGED nodePositions
     ELSE IF concepts = {}
     THEN /\ regen' = [adminKey |-> adminKey, status |-> 404,
                       conceptsRepositioned |-> 0]
          /\ UNCHANGED nodePositions
     ELSE \E newPositions \in [{c.id : c \in concepts} -> GalaxyPositions],
             hasRowCount \in BOOLEAN :
            /\ nodePositions' = UpdatedPositions(newPositions, hasRowCount)
            /\ regen' = [adminKey |-> adminKey, status |-> 200,
                         conceptsRepositioned |-> Cardinality(concepts)]
  /\ UNCHANGED <<buildGraphVars, embeddings, edges, concepts, search, lod,
                 detail, path, browser>>

\* the page before any event
NoUi ==
  [call |-> NoCall, tick |-> FALSE,
   nodeClickedRef |-> FALSE, click |-> "", pending |-> {}, canvasRanFirst |-> FALSE,
   query |-> "", isOpen |-> FALSE, data |-> Undefined, cached |-> {},
   searchNo |-> 0, timers |-> {}, shown |-> <<>>, highlightedFor |-> 0,
   last |-> ""]

----------------------------------------------------------------------------
(* Specifications *)

\* no call of the edge-generation endpoint has arrived
HandlersIdle ==
  /\ pc = [h \in Handlers |-> "idle"]
  /\ req = [h \in Handlers |-> NoRequest]
  /\ embeddingsData = [h \in Handlers |-> <<>>]
  /\ newEdges = [h \in Handlers |-> <<>>]
  /\ batchStart = [h \in Handlers |-> 0]
  /\ insertedCount = [h \in Handlers |-> 0]
  /\ response = [h \in Handlers |-> NoResponse]
  /\ pre = [h \in Handlers |-> {}]
  /\ post = [h \in Handlers |-> {}]
  /\ runNo = [h \in Handlers |-> 0]
  /\ runs = 0
  /\ xAdminKey = [h \in Handlers |-> "null"]

\* the page is not open
BrowserIdle ==
  /\ galaxy = NoStore
  /\ ui = NoUi
  /\ cam = NoCam
  /\ scoring = NoScoring
  /\ memo = NoMemo

\* no position was stored and none regenerated
PositionsIdle ==
  /\ nodePositions = {}
  /\ regen = NoRegen

\* no call of the read endpoints has arrived
ReadSideIdle ==
  /\ concepts = ConceptTable
  /\ search = NoSearch
  /\ lod = NoLod
  /\ detail = NoDetail
  /\ path = NoPath
  /\ PositionsIdle
  /\ BrowserIdle

Init ==
  /\ adminApiKey \in {NoKey, "secret"}
  /\ embeddings \in EmbeddingTables
  /\ edges \in EdgeTables
  /\ HandlersIdle
  /\ ReadSideIdle

\* calls one after the other: a call arrives when no other is in progress
ReceiveNext ==
  /\ \A g \in Handlers : pc[g] \in {"idle", "done"}
  /\ \E adminKey \in Headers, clear \in BOOLEAN,
        thresholdParam \in ThresholdParams, maxEdgesParam \in MaxEdgesParams :
       Receive((runs % 2) + 1, adminKey, clear, thresholdParam, maxEdgesParam)

Next ==
  \/ ReceiveNext
  \/ \E h \in Handlers : ClearExisting(h)
  \/ \E h \in Handlers : FetchAndGenerate(h)
  \/ \E h \in Handlers : InsertBatch(h)
  \/ \E h \in Handlers : Statistics(h)

Spec == Init /\ [][Next]_vars

\* calls that may overlap: authorized calls with parameters in range, each
\* taken by the first handler that is free
ReceiveAny ==
  \E h \in Handlers, clear \in BOOLEAN, maxEdgesParam \in {"absent", "1"} :
    /\ \A g \in Handlers : g < h => pc[g] \notin {"idle", "done"}
    /\ Receive(h, "secret", clear, "0.5", maxEdgesParam)

NextConcurrent ==
  \/ ReceiveAny
  \/ \E h \in Handlers : ClearExisting(h)
  \/ \E h \in Handlers : FetchAndGenerate(h)
  \/ \E h \in Handlers : InsertBatch(h)
  \/ \E h \in Handlers : Statistics(h)

SpecConcurrent == Init /\ [][NextConcurrent]_vars

\* the search endpoint alone, called again and again over a fixed database
InitSearch ==
  /\ adminApiKey = "secret"
  /\ embeddings \in EmbeddingTables
  /\ edges = {}
  /\ HandlersIdle
  /\ ReadSideIdle

NextSearch ==
  \/ \E queryParam \in SearchQueries, limitParam \in LimitParams,
        thresholdParam \in SearchThresholdParams,
        queryEmbedding \in QueryEmbeddings :
       VectorSearch(queryParam, limitParam, thresholdParam, queryEmbedding)
  \/ \E queryParam \in SearchQueries, limitParam \in LimitParams,
        thresholdParam \in SearchThresholdParams :
       TextSearch(queryParam, limitParam, thresholdParam)

SpecSearch == InitSearch /\ [][NextSearch]_vars

\* the level-of-detail system alone: mounted with any props and camera,
\* then rendered
InitLod ==
  /\ adminApiKey = "secret"
  /\ embeddings = {}
  /\ edges = {}
  /\ HandlersIdle
  /\ concepts = ConceptTable
  /\ search = NoSearch
  /\ detail = NoDetail
  /\ path = NoPath
  /\ PositionsIdle
  /\ BrowserIdle
  /\ \E nodes \in NodeLists, frustum \in Frusta,
        enableFrustumCulling \in BOOLEAN, enableClustering \in BOOLEAN,
        lodLevels \in LevelLists, maxNodes \in MaxNodesProps,
        cameraPos \in CameraPositions :
       lod = Mounted([nodes |-> nodes, frustum |-> frustum,
                      enableFrustumCulling |-> enableFrustumCulling,
                      enableClustering |-> enableClustering,
                      lodLevels |-> lodLevels, maxNodes |-> maxNodes],
                     cameraPos)

NextLod == Render

SpecLod == InitLod /\ [][NextLod]_vars

\* the concept endpoint alone, called again and again over a fixed database
InitDetail ==
  /\ adminApiKey = "secret"
  /\ embeddings = {}
  /\ edges \in DetailEdgeTables
  /\ HandlersIdle
  /\ ReadSideIdle

NextDetail == \E conceptId \in ConceptIds : GetConcept(conceptId)

SpecDetail == InitDetail /\ [][NextDetail]_vars

\* the path finder alone, one query after the other over a fixed database
NextPath ==
  \/ \E source \in PathConcepts, target \in PathConcepts,
        maxDepthParam \in MaxDepthParams :
       FindPath(source, target, maxDepthParam)
  \/ Explore

SpecPath == InitDetail /\ [][NextPath]_vars

\* the two admin endpoints: edge generation with any header, one call after
\* the other, and position regeneration with any header
InitAdmin ==
  /\ adminApiKey \in {NoKey, "secret"}
  /\ embeddings = {row \in ScenarioTable : row.conceptId \in {"A", "B"}}
  /\ edges = StoredEdges
  /\ HandlersIdle
  /\ concepts \in {{}, {c \in ConceptTable : c.id \in {"A", "C"}}}
  /\ search = NoSearch
  /\ lod = NoLod
  /\ detail = NoDetail
  /\ path = NoPath
  /\ nodePositions = StoredPositions
  /\ regen = NoRegen
  /\ BrowserIdle

ReceiveAdmin ==
  /\ \A g \in Handlers : pc[g] \in {"idle", "done"}
  /\ \E adminKey \in Headers, clear \in BOOLEAN :
       Receive((runs % 2) + 1, adminKey, clear, "0.5", "absent")

NextAdmin ==
  \/ ReceiveAdmin
  \/ \E h \in Handlers : ClearExisting(h)
  \/ \E h \in Handlers : FetchAndGenerate(h)
  \/ \E h \in Handlers : InsertBatch(h)
  \/ \E h \in Handlers : Statistics(h)
  \/ \E adminKey \in RegenerateHeaders : RegeneratePositions(adminKey)

SpecAdmin == InitAdmin /\ [][NextAdmin]_vars

\* the scoring alone: a node, a camera and a number of tiers are drawn, then
\* the node is scored at every tier index
InitScoring ==
  /\ adminApiKey = "secret"
  /\ embeddings = {}
  /\ edges = {}
  /\ HandlersIdle
  /\ concepts = ConceptTable
  /\ search = NoSearch
  /\ lod = NoLod
  /\ detail = NoDetail
  /\ path = NoPath
  /\ PositionsIdle
  /\ galaxy = NoStore
  /\ ui = NoUi
  /\ cam = NoCam
  /\ memo = NoMemo
  /\ \E version \in Versions, node \in SceneNodes, cameraPos \in CameraPositions,
        tiers \in DefaultTiers..MaxTiers :
       scoring = ToScore(version, node, cameraPos, tiers)

NextScoring == ScoreNode

SpecScoring == InitScoring /\ [][NextScoring]_vars

\* LODSystem in the page: mounted with the store's empty nodes array and a
\* camera; then the nodes arrive, the camera moves and the component renders
\* again, in any order
InitMemo ==
  /\ adminApiKey = "secret"
  /\ embeddings = {}
  /\ edges = {}
  /\ HandlersIdle
  /\ concepts = ConceptTable
  /\ search = NoSearch
  /\ lod = NoLod
  /\ detail = NoDetail
  /\ path = NoPath
  /\ PositionsIdle
  /\ galaxy = NoStore
  /\ ui = NoUi
  /\ cam = NoCam
  /\ scoring = NoScoring
  /\ \E camera \in Cameras : memo = Unmounted(<<>>, ClusterLevels, camera)

NextMemo ==
  \/ FirstRender
  \/ \E camera \in Cameras : MoveCamera(camera)
  \/ Rerender
  \/ \E nodes \in StoreNodeLists : RerenderWithNodes(nodes)

SpecMemo == InitMemo /\ [][NextMemo]_vars

\* the store alone: its actions called in any order with any argument
InitStore ==
  /\ adminApiKey = "secret"
  /\ embeddings = {}
  /\ edges = {}
  /\ HandlersIdle
  /\ ReadSideIdle

NextStore ==
  \/ \E nodes \in GalaxyNodeLists : CallSetNodes(nodes)
  \/ \E nodeId \in GalaxyIds \cup {Null} : CallSelectNode(nodeId)
  \/ \E nodeId \in {"A", Null} : CallHoverNode(nodeId)
  \/ \E nodeIds \in ResultIdLists : CallSetSearchResults(nodeIds)
  \/ \E nodeIds \in ResultIdLists : CallHighlightSearchResults(nodeIds)
  \/ CallClearSearchHighlight
  \/ \E nodeId \in GalaxyIds : CallFlyToNode(nodeId)
  \/ \E nodeId \in GalaxyIds : CallFlyToNodeEarlier(nodeId)
  \/ \E nodePath \in GalaxyPaths : CallHighlightPath(nodePath)
  \/ CallResetView

SpecStore == InitStore /\ [][NextStore]_vars

\* clicks on a galaxy of two nodes; the two handlers of a click on a node
\* run in either order
InitClicks ==
  /\ adminApiKey = "secret"
  /\ embeddings = {}
  /\ edges = {}
  /\ HandlersIdle
  /\ concepts = ConceptTable
  /\ search = NoSearch
  /\ lod = NoLod
  /\ detail = NoDetail
  /\ path = NoPath
  /\ PositionsIdle
  /\ galaxy = setNodes(InitialStore, <<NodeA, NodeB>>)
  /\ ui = NoUi
  /\ cam = NoCam
  /\ scoring = NoScoring
  /\ memo = NoMemo

NextClicks ==
  \/ \E target \in ClickTargets : Click(target)
  \/ handleClick
  \/ handleCanvasClick

SpecClicks == InitClicks /\ [][NextClicks]_vars

\* the search box over a galaxy of two nodes
InitSearchInterface == InitClicks

NextSearchInterface ==
  \/ \E searchQuery \in TypedQueries : handleSearch(searchQuery)
  \/ ResultsArrive
  \/ \E conceptId \in GalaxyIds : handleSelectResult(conceptId)
  \/ handleKeyDown
  \/ \E selection \in 1..MaxSearches : TimerFires(selection)

SpecSearchInterface == InitSearchInterface /\ [][NextSearchInterface]_vars

\* the camera controller: camera states arrive and frames are drawn; the
\* render loop draws frames for as long as the page is shown
InitCamera == InitClicks

Frames == \E delta \in Deltas : Frame(delta)

NextCamera ==
  \/ \E cameraState \in CameraStates : NewTarget(cameraState)
  \/ Frames

SpecCamera == InitCamera /\ [][NextCamera]_vars /\ WF_vars(Frames)

----------------------------------------------------------------------------
(* Properties *)

Concepts == {"A", "B", "C"}

\* the call read a non-empty embedding set and ran the edge generation
Generated(h) == embeddingsData[h] # <<>>

ThresholdInRange(t) == ~t.nan /\ t.v >= 0 /\ t.v <= 100

MaxEdgesPositive(k) == ~k.nan /\ k.v > 0

SimilarityEdges(store) == {e \in store : e.edgeType = "similarity"}

OutDegree(es, c) == Cardinality({k \in 1..Len(es) : es[k].sourceId = c})

CandidateIds(rows, i, threshold) ==
  {x.conceptId : x \in Range(SimilaritiesFrom(rows, i, i + 1, threshold))}

\* the call ran the generation over the scenario table with a threshold in
\* [0,1] and a positive maxEdgesPerNode
ScenarioRun(h) ==
  /\ Range(embeddingsData[h]) = ScenarioTable
  /\ ThresholdInRange(req[h].threshold)
  /\ MaxEdgesPositive(req[h].maxEdgesPerNode)

MixedDimensions(rows) ==
  \E i, j \in 1..Len(rows) : Len(rows[i].vector) # Len(rows[j].vector)

\* C1: every edge generated by a run with threshold t and maxEdgesPerNode
\* K > 0 has weight >= t, and no concept is the source of more than K of the
\* run's edges.
C1_WeightAndOutDegree ==
  \A h \in Handlers :
    (Generated(h) /\ ~req[h].threshold.nan /\ MaxEdgesPositive(req[h].maxEdgesPerNode))
    => /\ \A k \in 1..Len(newEdges[h]) :
            SimGeThreshold(newEdges[h][k].weight, req[h].threshold)
       /\ \A c \in Concepts :
            OutDegree(newEdges[h], c) <= req[h].maxEdgesPerNode.v

\* C2: in a run over the scenario table, a pair of rows whose similarity
\* reaches the threshold puts each endpoint in the other's candidate list,
\* whichever comes first in the row order; and with threshold 0.6 and K = 1
\* the edges generated are exactly A->B and B->A with weight 0.9.
C2_CandidatesFromBothDirections ==
  \A h \in Handlers :
    ScenarioRun(h)
    => LET rows == embeddingsData[h]
       IN /\ \A i, j \in 1..Len(rows) :
               (i # j /\ SimGeThreshold(CosineSimilarity(rows[i].vector,
                                                         rows[j].vector),
                                        req[h].threshold))
               => rows[j].conceptId \in CandidateIds(rows, i, req[h].threshold)
          /\ (req[h].threshold = Num(60) /\ req[h].maxEdgesPerNode = Num(1))
             => Range(newEdges[h]) =
                  {Edge("A", "B", "similarity", 9, 100),
                   Edge("B", "A", "similarity", 9, 100)}

\* C3: two successful runs with clearExisting = true and the same threshold
\* and maxEdgesPerNode, one after the other over the scenario table, leave the
\* same similarity edges in the edges table, whatever order each read the
\* rows in.
C3_SameEdgesOnRerun ==
  \A g, h \in Handlers :
    (/\ 0 < runNo[g] /\ runNo[g] < runNo[h]
     /\ pc[g] = "done" /\ pc[h] = "done"
     /\ response[g].success /\ response[h].success
     /\ ScenarioRun(g) /\ ScenarioRun(h)
     /\ req[g].clearExisting /\ req[g] = req[h])
    => SimilarityEdges(post[g]) = SimilarityEdges(post[h])

\* C4: after a successful run with clearExisting = true over the scenario
\* table, every citation or category edge that was in the edges table when the
\* call arrived is still in it.
C4_ClearKeepsOtherTypes ==
  \A h \in Handlers :
    (pc[h] = "done" /\ ScenarioRun(h) /\ response[h].success
     /\ req[h].clearExisting)
    => {e \in pre[h] : e.edgeType # "similarity"} \subseteq post[h]

\* C5: a run with clearExisting = false over the scenario table that generates
\* an edge whose triple is already in the edges table succeeds and leaves the
\* generated edges, with their new weights, in the table; and a second such
\* run right after a successful one with the same parameters and row order
\* succeeds and leaves the table as the first left it.
C5_UpsertWithoutClear ==
  /\ \A h \in Handlers :
       (/\ pc[h] = "done" /\ ScenarioRun(h) /\ ~req[h].clearExisting
        /\ \E k \in 1..Len(newEdges[h]) : \E e \in pre[h] :
             Triple(e) = Triple(newEdges[h][k]))
       => response[h].success /\ Range(newEdges[h]) \subseteq post[h]
  /\ \A g, h \in Handlers :
       (/\ 0 < runNo[g] /\ runNo[h] = runNo[g] + 1
        /\ pc[g] = "done" /\ pc[h] = "done"
        /\ ScenarioRun(g) /\ ~req[g].clearExisting /\ response[g].success
        /\ req[h] = req[g] /\ embeddingsData[h] = embeddingsData[g])
       => response[h].success /\ post[h] = post[g]

\* C6: when two runs with clearExisting = true over the scenario table have
\* both returned, in any interleaving of their steps, the similarity edges in
\* the edges table are exactly the edges generated by one of the two.
C6_LastWriterWins ==
  (\A h \in Handlers :
     pc[h] = "done" /\ ScenarioRun(h) /\ req[h].clearExisting)
  => \E h \in Handlers : SimilarityEdges(edges) = Range(newEdges[h])

\* C7: a run over the scenario table whose insert of one batch failed still
\* went on to the batches after it: when the call has returned, the insert
\* loop has reached the last batch of newEdges.
C7_ContinuesAfterFailedBatch ==
  \A h \in Handlers :
    (pc[h] = "done" /\ ScenarioRun(h))
    => batchStart[h] + batchSize >= Len(newEdges[h])

\* C8 (as claimed): an accepted run over an empty embeddings table returns
\* success with zero edges created.
C8_EmptyIsSuccess ==
  \A h \in Handlers :
    (pc[h] = "done" /\ embeddings = {} /\ response[h].status # 401)
    => response[h].success /\ insertedCount[h] = 0

\* C8 (amended): an accepted run over an empty embeddings table is reported
\* as a failure, status 400 with the error "No embeddings found. Generate
\* embeddings first.", and it generates and inserts no edge.
C8_EmptyIsError ==
  \A h \in Handlers :
    (pc[h] = "done" /\ embeddings = {} /\ response[h].status # 401)
    => /\ response[h].status = 400
       /\ ~response[h].success
       /\ response[h].error = "No embeddings found. Generate embeddings first."
       /\ newEdges[h] = <<>>
       /\ insertedCount[h] = 0
       /\ SimilarityEdges(post[h]) \subseteq SimilarityEdges(pre[h])

\* an accepted run over the empty table has returned
C8_Witness ==
  \E h \in Handlers :
    pc[h] = "done" /\ embeddings = {} /\ response[h].status = 400

\* C9: a call (here over the scenario table) whose threshold is outside [0,1]
\* or whose maxEdgesPerNode is not a positive integer is rejected: it never
\* runs the edge generation with the value and never returns success.
C9_InvalidParameterRejected ==
  \A h \in Handlers :
    (/\ pc[h] # "idle" /\ response[h].status # 401
     /\ embeddings = ScenarioTable
     /\ (~ThresholdInRange(req[h].threshold)
         \/ ~MaxEdgesPositive(req[h].maxEdgesPerNode)))
    => ~Generated(h) /\ ~response[h].success

UniqueTriples(es) ==
  \A k, l \in 1..Len(es) : Triple(es[k]) = Triple(es[l]) => k = l

\* C11: neither the edges table, after any sequence of runs with either value
\* of clearExisting, nor the edge list generated inside one run (threshold in
\* [0,1], positive maxEdgesPerNode, vectors of one dimension) holds two edges
\* with the same (source, target, type), also when a concept has more than
\* one embedding row.
C11_NoDuplicateTriple ==
  /\ UniqueEdge(edges)
  /\ \A h \in Handlers :
       (/\ Generated(h) /\ ~MixedDimensions(embeddingsData[h])
        /\ ThresholdInRange(req[h].threshold)
        /\ MaxEdgesPositive(req[h].maxEdgesPerNode))
       => UniqueTriples(newEdges[h])

\* C11, the half about the table alone
C11_StoreUnique == UniqueEdge(edges)

\* the concepts of the results of the last search
ResultConcepts == {search.results[k].concept : k \in 1..Len(search.results)}

\* the embedding rows whose similarity to the query is >= the threshold
RowsAtOrAbove(queryEmbedding, threshold) ==
  {r \in embeddings :
     SimGeThreshold(CosineSimilarity(r.vector, queryEmbedding), threshold)}

\* C12: a vector search (here over the scenario table, one embedding per
\* concept) returns exactly the concepts whose cosine similarity to the query
\* is >= threshold, a similarity equal to the threshold included, cut to the
\* limit highest, in descending order of similarity.
C12_VectorSearchExact ==
  (search.kind = "vector" /\ search.status = 200 /\ embeddings = ScenarioTable)
  => LET kept == RowsAtOrAbove(search.queryEmbedding, search.threshold)
         sim(r) == CosineSimilarity(r.vector, search.queryEmbedding)
         n == Len(search.results)
     IN /\ n = (IF search.limit.v < Cardinality(kept)
                THEN search.limit.v ELSE Cardinality(kept))
        /\ \A k \in 1..n :
             \E r \in kept : /\ search.results[k].concept = r.conceptId
                             /\ search.results[k].similarity = sim(r)
        /\ Cardinality(ResultConcepts) = n
        /\ \A k \in 1..(n - 1) :
             ~SimLess(search.results[k].similarity,
                      search.results[k + 1].similarity)
        /\ \A r \in kept :
             r.conceptId \notin ResultConcepts
             => \A k \in 1..n : ~SimLess(search.results[k].similarity, sim(r))

\* C12 with "strictly greater than the threshold": what the WHERE clause keeps
C12_StrictlyAbove ==
  (search.kind = "vector" /\ search.status = 200 /\ embeddings = ScenarioTable)
  => LET kept == SimilarRows(search.queryEmbedding, search.threshold)
         sim(r) == CosineSimilarity(r.vector, search.queryEmbedding)
         n == Len(search.results)
     IN /\ n = (IF search.limit.v < Cardinality(kept)
                THEN search.limit.v ELSE Cardinality(kept))
        /\ \A k \in 1..n :
             \E r \in kept : /\ search.results[k].concept = r.conceptId
                             /\ search.results[k].similarity = sim(r)
        /\ Cardinality(ResultConcepts) = n
        /\ \A k \in 1..(n - 1) :
             ~SimLess(search.results[k].similarity,
                      search.results[k + 1].similarity)
        /\ \A r \in kept :
             r.conceptId \notin ResultConcepts
             => \A k \in 1..n : ~SimLess(search.results[k].similarity, sim(r))

\* every result a vector search over the current table can return
RankedResults ==
  {VectorResult(row, queryEmbedding) :
     row \in embeddings, queryEmbedding \in QueryEmbeddings}

\* C13: every result of the text search carries a result kind that marks it
\* as an unscored match and no similarity value, so that it cannot be taken
\* for a result of the vector search.
C13_TextResultsUnscored ==
  search.kind = "text"
  => \A k \in 1..Len(search.results) :
       /\ "kind" \in DOMAIN search.results[k]
       /\ "similarity" \notin DOMAIN search.results[k]
       /\ search.results[k] \notin RankedResults

\* the level selected by the last render
CurrentLod == lod.lodLevels[lod.currentLodLevel + 1]

\* the nodes that reached the sort of the last render
SurvivingNodes ==
  SelectSeq(lod.clustered, LAMBDA node : node.size >= CurrentLod.minSize)

\* C14: the number of visible nodes is at most the selected level's maxNodes,
\* for every node list, camera position and level list; at camera distance 50
\* with the levels [{100, 600, 1.0}, {300, 400, 1.2}] level 0 is selected.
C14_VisibleAtMostMaxNodes ==
  /\ lod.rendered => Len(lod.visibleNodes) <= CurrentLod.maxNodes
  /\ LodLevel(Position(600, 0, 0),
              <<LODLevel(Finite(1200), 600, 240, 0),
                LODLevel(Finite(3600), 400, 288, 0)>>) = 0

\* a render cut the surviving nodes down to the level's maxNodes
C14_Witness ==
  /\ lod.rendered
  /\ Len(lod.visibleNodes) = CurrentLod.maxNodes
  /\ Len(SurvivingNodes) > CurrentLod.maxNodes
  /\ lod.maxNodes > CurrentLod.maxNodes

\* the level's distance bound is >= the camera's distance from the origin
BoundReaches(level, cameraPos) ==
  level.distance.inf
  \/ level.distance.v * level.distance.v >= LengthSq(cameraPos)

\* C15: the selected level is the first of the list, which is in ascending
\* order of distance, whose bound is >= the camera's distance from the origin,
\* and the last one when no bound is; a camera at a greater distance never
\* gets a smaller level index.
C15_FirstLevelInReach ==
  lod.rendered
  => LET i == lod.currentLodLevel
         n == Len(lod.lodLevels)
     IN /\ i \in 0..(n - 1)
        /\ \A j \in 1..i : ~BoundReaches(lod.lodLevels[j], lod.cameraPos)
        /\ BoundReaches(CurrentLod, lod.cameraPos) \/ i = n - 1
        /\ \A cameraPos \in CameraPositions :
             LengthSq(cameraPos) >= LengthSq(lod.cameraPos)
             => LodLevel(cameraPos, lod.lodLevels) >= i

\* a render passed over the first level and selected the second, and a
\* camera further out gets the third
C15_Witness ==
  /\ lod.rendered
  /\ lod.currentLodLevel = 1
  /\ ~BoundReaches(lod.lodLevels[1], lod.cameraPos)
  /\ BoundReaches(CurrentLod, lod.cameraPos)
  /\ \E cameraPos \in CameraPositions :
       LodLevel(cameraPos, lod.lodLevels) = 2

\* the grid cells of a list of nodes
CellsOf(nodes, clusterRadius) ==
  {ClusterKey(nodes[k], clusterRadius) : k \in 1..Len(nodes)}

\* the positions, along one axis, of the nodes of a list that lie in a cell
InCell(nodes, clusterRadius, cell, axis(_)) ==
  [k \in 1..Len(nodes) |->
     IF ClusterKey(nodes[k], clusterRadius) = cell THEN axis(nodes[k]) ELSE 0]

\* every cell of the nodes that entered the clustering step of the last
\* render leaves it as one node: the member itself when the cell has one
\* member, otherwise a node at the centroid of the members
OnePerCell ==
  LET r == CurrentLod.clusterRadius
      entering == lod.frustumCulledNodes
      leaving == lod.clustered
  IN /\ \A k, l \in 1..Len(leaving) :
          ClusterKey(leaving[k], r) = ClusterKey(leaving[l], r) => k = l
     /\ CellsOf(leaving, r) = CellsOf(entering, r)
     /\ \A k \in 1..Len(leaving) :
          LET cell == ClusterKey(leaving[k], r)
              n == Sum(InCell(entering, r, cell, LAMBDA node : 1))
          IN /\ n = 1 => \E j \in 1..Len(entering) : entering[j] = leaving[k]
             /\ leaving[k].position.x * n
                  = Sum(InCell(entering, r, cell, LAMBDA node : node.position.x))
             /\ leaving[k].position.y * n
                  = Sum(InCell(entering, r, cell, LAMBDA node : node.position.y))
             /\ leaving[k].position.z * n
                  = Sum(InCell(entering, r, cell, LAMBDA node : node.position.z))

\* C16: when the selected level has a clusterRadius, the surviving nodes of
\* one grid cell are replaced by exactly one representative at the centroid
\* of the cell's members, and the single member of a cell passes unchanged.
C16_OnePerCell ==
  (lod.rendered /\ CurrentLod.clusterRadius # 0) => OnePerCell

\* C16 (amended): the same, when clustering is enabled.
C16_OnePerCellWhenEnabled ==
  (lod.rendered /\ lod.enableClustering /\ CurrentLod.clusterRadius # 0)
  => OnePerCell

\* a render with clustering enabled collapsed a cell of several members whose
\* positions differ, and passed the single member of another cell through
C16_Witness ==
  /\ lod.rendered /\ lod.enableClustering /\ CurrentLod.clusterRadius # 0
  /\ Len(lod.clustered) = 2
  /\ Len(lod.frustumCulledNodes) = 3
  /\ \A k \in 1..3 :
       lod.frustumCulledNodes[k].position # lod.clustered[1].position

\* the node ids in ascending order
SortedIds == <<"n1", "n2", "n3", "n4">>

IdBefore(a, b) ==
  \E i, j \in 1..Len(SortedIds) : i < j /\ SortedIds[i] = a /\ SortedIds[j] = b

\* what a render of the same scene returns for the node list in another order
VisibleFor(nodes) ==
  LodCalculation(FrustumCulled(nodes, lod.frustum, lod.enableFrustumCulling),
                 lod.cameraPos, lod.lodLevels, lod.maxNodes,
                 lod.enableClustering).visibleNodes

\* C17: the visible nodes (here with a maxNodes prop that does not cut below
\* the level's maxNodes) are the level's maxNodes highest-scored surviving
\* nodes, in descending order of score, nodes of equal score in the order of
\* their ids; a node list with the same members in another order gives the
\* same visible nodes.
C17_TopByScoreThenId ==
  (lod.rendered /\ lod.maxNodes >= CurrentLod.maxNodes)
  => LET visible == lod.visibleNodes
         ids == {visible[k].id : k \in 1..Len(visible)}
     IN /\ Len(visible) = Min(CurrentLod.maxNodes, Len(SurvivingNodes))
        /\ \A k \in 1..(Len(visible) - 1) :
             \/ visible[k].lodScore > visible[k + 1].lodScore
             \/ /\ visible[k].lodScore = visible[k + 1].lodScore
                /\ IdBefore(visible[k].id, visible[k + 1].id)
        /\ \A k \in 1..Len(SurvivingNodes) :
             SurvivingNodes[k].id \notin ids
             => \A l \in 1..Len(visible) :
                  visible[l].lodScore
                    >= LodScore(SurvivingNodes[k], lod.cameraPos,
                                lod.currentLodLevel)
        /\ \A nodes \in Orders(Range(lod.nodes)) : VisibleFor(nodes) = visible

\* C18: for an empty node list the render returns no visible node and the
\* level index 0, whatever the camera's distance from the origin is.
C18_EmptyGivesLevelZero ==
  (lod.rendered /\ lod.nodes = <<>>)
  => lod.visibleNodes = <<>> /\ lod.currentLodLevel = 0

\* C18, the half about the visible nodes alone
C18_EmptyGivesNoNodes ==
  (lod.rendered /\ lod.nodes = <<>>) => lod.visibleNodes = <<>>

\* the category of the concept of an id in the concepts table
CategoryOfId(id) == (CHOOSE c \in concepts : c.id = id).category

\* weight > 0.8, on the square of the weight: p / q > 64 / 100
AboveCrossDomainThreshold(weight) ==
  ~weight.nan /\ weight.s = 1 /\ 100 * weight.p > 64 * weight.q

RECURSIVE WithinHops(_, _)
WithinHops(node, hops) ==
  IF hops = 0 THEN {node}
  ELSE LET nearer == WithinHops(node, hops - 1)
       IN nearer \cup
          {e.targetId : e \in {x \in edges : x.sourceId \in nearer}} \cup
          {e.sourceId : e \in {x \in edges : x.targetId \in nearer}}

\* hundredths of 1 - weight of an edge between two concepts
CostsBetween(a, b) ==
  {100 - (100 * Root(e.weight.p)) \div Root(e.weight.q) :
     e \in {x \in edges : {x.sourceId, x.targetId} = {a, b}}}

\* C20: an answered path query gives a path from source to target over
\* existing edges, of at most maxHops hops, whose cumulative cost (the sum of
\* 1 - weight) starts at zero or more and never decreases, or fails with
\* NoPathFound when the target is not within maxHops hops of the source
C20_PathOrNoPathFound ==
  (path.pc = "done" /\ path.error # "InvalidRequest") =>
    IF path.error = ""
    THEN /\ Len(path.path) >= 1
         /\ path.path[1].concept = path.source
         /\ path.path[Len(path.path)].concept = path.target
         /\ Len(path.path) - 1 <= path.maxHops
         /\ path.path[1].distance >= 0
         /\ \A k \in 1..(Len(path.path) - 1) :
              /\ path.path[k + 1].distance >= path.path[k].distance
              /\ (path.path[k + 1].distance - path.path[k].distance)
                   \in CostsBetween(path.path[k].concept, path.path[k + 1].concept)
         /\ path.total_distance = path.path[Len(path.path)].distance
    ELSE /\ path.error = "NoPathFound"
         /\ path.target \notin WithinHops(path.source, path.maxHops)

\* C20: a path of as many hops as the cap allows is returned, one edge of
\* which is not free
C20_Witness ==
  /\ path.pc = "done"
  /\ path.error = ""
  /\ path.maxHops = 2
  /\ Len(path.path) = 3
  /\ path.total_distance > 0

\* C21, edge generation: a call whose x-admin-key header is not the
\* configured key is answered 401 and leaves the edges as they were
C21_EdgeGenerationNeedsKey ==
  \A h \in Handlers :
    (runNo[h] > 0 /\ xAdminKey[h] # adminApiKey) =>
      /\ pc[h] = "done"
      /\ response[h].status = 401
      /\ post[h] = pre[h]

\* C21, the rejections of position regeneration: a call answered 401 leaves
\* the positions as they were
C21_RejectionKeepsPositions ==
  [][regen'.status = 401 => nodePositions' = nodePositions]_vars

\* C21: an admin operation runs only when the x-admin-key header equals the
\* configured ADMIN_API_KEY; every other request is rejected and changes no
\* stored edge
C21_AdminNeedsConfiguredKey ==
  /\ C21_EdgeGenerationNeedsKey
  /\ (regen.status # 0 /\ regen.adminKey # adminApiKey) => regen.status = 401

\* C22, without the strictness: the distance weight never increases and the
\* importance weight never decreases with the tier index
C22_WeightsMonotone ==
  scoring.scored =>
    \A i \in 1..scoring.tiers, j \in 1..scoring.tiers :
      i < j =>
        /\ scoring.scores[j].distanceWeight <= scoring.scores[i].distanceWeight
        /\ scoring.scores[j].importanceWeight >= scoring.scores[i].importanceWeight

\* C22: in the LOD score the weight of the camera distance decreases and the
\* weight of the importance increases with the tier index, strictly between
\* consecutive tiers of the default five tiers
C22_WeightsStrictOverDefaultTiers ==
  /\ C22_WeightsMonotone
  /\ scoring.scored =>
       \A i \in 1..(DefaultTiers - 1) :
         /\ scoring.scores[i + 1].distanceWeight < scoring.scores[i].distanceWeight
         /\ scoring.scores[i + 1].importanceWeight > scoring.scores[i].importanceWeight

\* C22, for the version of part_007 alone
C22_StrictInPart007 ==
  scoring.version = "part_007" => C22_WeightsStrictOverDefaultTiers

\* the selection worked out from the camera as it is now
SelectionNow ==
  LodCalculation(FrustumCulled(memo.nodes, memo.camera.frustum,
                               memo.enableFrustumCulling),
                 memo.camera.position, memo.lodLevels, memo.maxNodes,
                 memo.enableClustering)

\* C23: once the component has rendered after a camera move, the visible
\* nodes and the tier index handed to the renderer are the selection computed
\* from the camera's current position and matrices
C23_SelectionFollowsCamera ==
  (memo.mounted /\ memo.renderedSinceMove) =>
    /\ memo.visibleNodes = SelectionNow.visibleNodes
    /\ memo.currentLodLevel = SelectionNow.currentLodLevel

\* the concept ids in ascending order
AscendingConceptIds == <<"A", "B", "C", "D">>

ConceptIdBefore(a, b) ==
  \E k, l \in 1..Len(AscendingConceptIds) :
    k < l /\ AscendingConceptIds[k] = a /\ AscendingConceptIds[l] = b

\* the rows read after row i whose similarity to it reaches the threshold
TiedCandidates(rows, i, threshold, weight) ==
  {rows[j].conceptId :
     j \in {l \in (i + 1)..Len(rows) :
              /\ SimGeThreshold(CosineSimilarity(rows[i].vector, rows[l].vector),
                                threshold)
              /\ CosineSimilarity(rows[i].vector, rows[l].vector) = weight}}

\* C24: candidates of a node with the same similarity are ordered by ascending
\* target id before the cut to K: among the generated edges of a source, edges
\* of equal weight come in ascending target id, and no candidate left out has
\* the weight of an edge that was kept and a smaller target id
C24_TiesByAscendingTargetId ==
  \A h \in Handlers :
    ScenarioRun(h) =>
      /\ \A k, l \in 1..Len(newEdges[h]) :
           (/\ k < l
            /\ newEdges[h][k].sourceId = newEdges[h][l].sourceId
            /\ newEdges[h][k].weight = newEdges[h][l].weight)
           => ConceptIdBefore(newEdges[h][k].targetId, newEdges[h][l].targetId)
      /\ \A k \in 1..Len(newEdges[h]), i \in 1..Len(embeddingsData[h]) :
           embeddingsData[h][i].conceptId = newEdges[h][k].sourceId =>
             \A candidate \in TiedCandidates(embeddingsData[h], i, req[h].threshold,
                                             newEdges[h][k].weight) :
               \/ \E l \in 1..Len(newEdges[h]) :
                    /\ newEdges[h][l].sourceId = newEdges[h][k].sourceId
                    /\ newEdges[h][l].targetId = candidate
               \/ ConceptIdBefore(newEdges[h][k].targetId, candidate)

\* C24, the order alone: the generated edges of a source come in descending
\* weight
C24_DescendingWeight ==
  \A h \in Handlers :
    ScenarioRun(h) =>
      \A k, l \in 1..Len(newEdges[h]) :
        (k < l /\ newEdges[h][k].sourceId = newEdges[h][l].sourceId)
        => ~SimLess(newEdges[h][k].weight, newEdges[h][l].weight)

\* C26: after any sequence of store actions, a node is marked highlighted if
\* and only if its id is in searchResults
C26_HighlightedIffInSearchResults ==
  \A k \in 1..Len(galaxy.nodes) :
    galaxy.nodes[k].highlighted
      <=> (\E l \in 1..Len(galaxy.searchResults) :
             galaxy.searchResults[l] = galaxy.nodes[k].id)

\* the position of the node as the camera state holds positions
PositionOf(node) == <<node.position.x, node.position.y, node.position.z>>

\* C29: flyToNode(id), in either version, with an id that is not among the
\* store's nodes leaves the whole store unchanged; with an id that is among
\* them it sets selectedNode to id and the camera target to the position of
\* that node, and changes nothing else but the camera position
C29_FlyToNodeFrame ==
  [][(ui'.tick # ui.tick /\ ui'.call.name \in {"flyToNode", "flyToNodeEarlier"})
       => LET nodeId == ui'.call.nodeId
          IN IF AmongNodes(galaxy, nodeId)
             THEN /\ galaxy'.selectedNode = nodeId
                  /\ galaxy'.camera.target = PositionOf(FindNode(galaxy.nodes, nodeId))
                  /\ [galaxy' EXCEPT !.camera.position = galaxy.camera.position]
                       = [galaxy EXCEPT
                            !.selectedNode = nodeId,
                            !.camera.target =
                              PositionOf(FindNode(galaxy.nodes, nodeId))]
             ELSE galaxy' = galaxy]_vars

\* flyToNode("A") has run on a store that holds A, B and the results of a
\* search, while another node was selected
C29_Witness ==
  /\ ui.call = FlyToNodeCall("flyToNode", "A")
  /\ Len(galaxy.nodes) = 2
  /\ galaxy.searchResults = <<"B", "A">>
  /\ galaxy.nodes[1].highlighted
  /\ galaxy.selectedNode = "A"
  /\ galaxy.hoveredNode = "A"
  /\ galaxy.camera = [position |-> <<60, 45, 80>>, target |-> <<10, 20, 30>>, zoom |-> 1]

\* C28: a call rejected before it generates any edge, by the key check or
\* with "No embeddings found", leaves the edges table as it was before the
\* call, also when it was called with clear=true
C28_RejectedCallKeepsEdges ==
  \A h \in Handlers :
    (pc[h] = "done" /\ response[h] \in {Unauthorized, NoEmbeddings})
    => post[h] = pre[h]

\* C28, the key check alone: a call answered 401 leaves the edges table as
\* it was, also with clear=true
C28_UnauthorizedKeepsEdges ==
  \A h \in Handlers :
    (pc[h] = "done" /\ response[h] = Unauthorized) => post[h] = pre[h]

\* C27: once the handlers of a click on the empty background have run,
\* selectedNode is null, in whichever order the two handlers of the clicks
\* before it ran
C27_BackgroundClickDeselects ==
  (ui.pending = {} /\ ui.click = Background) => galaxy.selectedNode = Null

\* C27, the flag: once both handlers of a click have run, the flag the node
\* handler raised has been lowered by the canvas handler of that click
C27_FlagConsumed == ui.pending = {} => ~ui.nodeClickedRef

\* C27, while the node handler of every click has run before its canvas
\* handler
C27_NodeHandlerFirst ==
  (ui.pending = {} /\ ~ui.canvasRanFirst) =>
    /\ ~ui.nodeClickedRef
    /\ ui.click = Background => galaxy.selectedNode = Null

\* the nodes of these ids, and no others, are highlighted
HighlightedAre(nodeIds) ==
  /\ galaxy.searchResults = nodeIds
  /\ \A k \in 1..Len(galaxy.nodes) :
       galaxy.nodes[k].highlighted <=> IncludesId(nodeIds, galaxy.nodes[k].id)

\* C25: after the user selects a search result the nodes highlighted for
\* that search stay highlighted until the timer of the selection fires: right
\* after the selection, with its timer running, they are highlighted still
C25_HighlightedUntilTimerFires ==
  (ui.last = "handleSelectResult" /\ ui.searchNo \in ui.timers)
  => HighlightedAre(ui.shown)

\* C25, the timers: the timer of one selection never clears highlights that
\* were set for a later search
C25_TimerSparesLaterSearch ==
  [][\A selection \in ui.timers :
       (selection \notin ui'.timers /\ ui.highlightedFor > selection)
       => galaxy' = galaxy]_vars

\* C25, the end of the timer: once no timer is running and the query is
\* empty, nothing is highlighted
C25_ClearedWhenTimersDone ==
  (ui.timers = {} /\ ui.query = "" /\ ui.last = "TimerFires") => HighlightedAre(<<>>)

C30_AnimationTerminates ==
  cam.isAnimating ~> (~cam.isAnimating /\ cam.animationProgress = One)

\* C30, the progress: it is 1 exactly when an animation has ended and below
\* 1 while one runs
C30_ProgressOneWhenEnded ==
  cam.targets > 0 => (cam.isAnimating <=> cam.animationProgress < One)

\* C30, restart: a camera state that arrives, also during an animation,
\* starts the animation from where the camera is, with progress 0
C30_RestartsFromCurrentPosition ==
  [][cam'.arrived =>
       /\ cam'.startPosition = cam.position
       /\ cam'.position = cam.position
       /\ cam'.animationProgress = 0
       /\ cam'.isAnimating]_vars

\* C30, up to rounding: once an animation has ended the camera is within
\* one unit of the target position in every coordinate
C30_EndsNearTarget ==
  (cam.targets > 0 /\ ~cam.isAnimating)
  => \A k \in 1..3 :
       /\ cam.position[k] - cam.targetPosition[k] <= One
       /\ cam.targetPosition[k] - cam.position[k] <= One

====
